---- MODULE Spec2Model ----
(***************************************************************************)
(* Spectro: circular column buffer (math-util.ts), streaming GPU renderer  *)
(* (spectrogram-render.ts + fragment shader), spectral analyzer            *)
(* (spectrogram.ts), the worker pool (worker-util.ts + helper worker) and  *)
(* the capture drivers and render loop (index.ts).                         *)
(*                                                                         *)
(* Numbers that are floats in the program are modelled exactly where the   *)
(* program only ever holds whole numbers (integers) or ratios of them      *)
(* (pairs <<num, den>>, den > 0); the smoothed render parameters are fixed *)
(* point with 30 fractional bits (pairs <<whole, frac>>).                  *)
(***************************************************************************)
EXTENDS Integers, Sequences, FiniteSets, TLC

VARIABLES
    \* Circular2DBuffer fields
    width, height, start, length, data,
    \* history: number of columns ever enqueued, last operation (an enqueue with
    \* the columns of the run of enqueue calls it ends, an updateSpectrogram with
    \* the start it found recorded and the columns it uploaded), buffer before it
    total, lastOp, prev, seen,
    \* SpectrogramGPURenderer fields; texture is the image held by spectrogramTexture
    lastSpectrogramStart, lastSpectrogramLength, spectrogramOffset, spectrogramLength,
    texture,
    \* what the fragment shader did for the pixel drawn last
    pixel,
    \* the last generateSpectrogram call: its arguments and its outcome; the
    \* position of its loop over the windows when the call is followed step by step
    genIn, genOut, genLoop,
    \* worker-util.ts: busy flags of WORKER_POOL, WORKER_QUEUE, the promise of every
    \* task, the worker getFreeWorker gave it, the message listener of each worker
    WORKER_POOL, WORKER_QUEUE, promise, taskWorker, listener,
    \* the then-callbacks of getFreeWorker() waiting in the microtask queue
    microtasks,
    \* messages in flight: request posted to a worker (the task it belongs to and
    \* its action), response posted by it
    request, requestAction, response,
    \* history: tasks in the order their request was posted, last pool step
    posted, poolOp,
    \* SpectrogramGPURenderer: parameters (null as NullParameters), target and
    \* smoothed scale range, smoothed contrast, sensitivity and zoom
    parameters, scaleRange, currentScaleRange, currentContrast, currentSensitivity,
    currentZoom,
    \* history: last updateParameters / render call (with the methods it called to
    \* recompute the lookup images and the scale range), the value last supplied for
    \* every field, number of counted updateParameters calls
    paramOp, lastSupplied, updates,
    \* SpectrogramGPURenderer resize fields; history: no updateSpectrogram call
    \* since construction or the last resizeCanvas
    resizeHandlerLastRealWidth, resizeHandlerZoomOverride, invalidated,
    \* index.ts: the capture source running, bufferCallbackPromise (the pending
    \* await of the file driver), the file driver's channelData, the sample buffer
    \* submitted with every task, the tasks whose result was enqueued, imageDirty
    source, bufferCallbackPromise, channelData, taskBuffer, enqueued, imageDirty,
    \* history: the tasks that were submitted and not settled when clearCallback
    \* last ran
    inFlightAtClear,
    \* setupSpectrogramFromMicrophone: channelBuffers (every chunk stands as the
    \* number of the audioprocess event that delivered it), isStart; history:
    \* events so far, columns requested so far for a channel, last step
    channelBuffers, isStart, chunksReceived, columnsRequested, micOp,
    \* setupSpectrogramFromAudioFile: nextSample, isStopping, the playback
    \* position duration * sampleRate read by the last audioEventCallback (whole
    \* samples, rounded up), whether playback was ended; history: start of the
    \* last window submitted so far, last step
    nextSample, isStopping, playhead, audioEnded, lastWindowStart, fileOp

bufVars == <<width, height, start, length, data>>
histVars == <<total, lastOp, prev, seen>>
gpuVars == <<lastSpectrogramStart, lastSpectrogramLength, spectrogramOffset,
             spectrogramLength, texture>>
genVars == <<genIn, genOut, genLoop>>
poolVars == <<WORKER_POOL, WORKER_QUEUE, promise, taskWorker, listener, microtasks,
              request, requestAction, response, posted, poolOp>>
paramVars == <<parameters, scaleRange, currentScaleRange, currentContrast,
               currentSensitivity, currentZoom>>
paramHist == <<paramOp, lastSupplied, updates>>
canvasVars == <<resizeHandlerLastRealWidth, resizeHandlerZoomOverride, invalidated>>
micVars == <<channelBuffers, isStart, chunksReceived, columnsRequested, micOp>>
fileVars == <<nextSample, isStopping, playhead, audioEnded, lastWindowStart, fileOp>>
streamVars == <<inFlightAtClear, micVars, fileVars>>
driverVars == <<source, bufferCallbackPromise, channelData, taskBuffer, enqueued,
                imageDirty, streamVars>>
vars == <<bufVars, histVars, gpuVars, pixel, genVars, poolVars, paramVars, paramHist,
          canvasVars, driverVars>>

----------------------------------------------------------------------------
\* Bounds of the model
MaxWidth == 3
MaxHeight == 2
MaxColumns == 5
MaxTotal == 7

\* index.ts constructs every buffer with elementSize 1
elementSize == 1

Min(a, b) == IF a <= b THEN a ELSE b
Max(a, b) == IF a >= b THEN a ELSE b

----------------------------------------------------------------------------
\* JavaScript arithmetic

\* the % operator of JavaScript: the result has the sign of the dividend
JsRem(x, y) == IF x >= 0 THEN x % y ELSE 0 - ((0 - x) % y)

mod(x, y) == JsRem(JsRem(x, y) + y, y)

\* a zero-filled typed array of n elements, indexed from 0
ZeroArray(n) == [p \in 0..(n - 1) |-> 0]

ArrayLen(a) == Cardinality(DOMAIN a)

----------------------------------------------------------------------------
\* Circular2DBuffer

\* the value stored in row r (0-based) of the c-th column ever produced (c >= 1)
Cell(c, r, h) == (c - 1) * h + r + 1

\* the typed array a worker returns for columns first..first+k-1
ColumnsArray(first, k, h) ==
    [p \in 0..(k * h - 1) |-> Cell(first + (p \div h), p % h, h)]

\* this.data.set(src.subarray(from * h, (from + 1) * h), x * h)
SetColumn(d, x, h, src, from) ==
    [p \in DOMAIN d |->
        IF p >= x * h /\ p < (x + 1) * h /\ (from * h + (p - x * h)) \in DOMAIN src
        THEN src[from * h + (p - x * h)]
        ELSE d[p]]

enqueueX(s, l, i, w) == mod(s + l + i, w)

RECURSIVE enqueueLoop(_, _, _, _, _, _, _, _)
enqueueLoop(d, i, dataWidth, s, l, w, h, src) ==
    IF i >= dataWidth THEN d
    ELSE enqueueLoop(SetColumn(d, enqueueX(s, l, i, w), h, src, i),
                     i + 1, dataWidth, s, l, w, h, src)

\* start after an enqueue that overflowed; l is the already incremented length
enqueueStartMut(s, l, w) == mod(s + 1, w)
enqueueStart(s, l, w) == mod(s + l - w, w)

enqueueLengthMut(l, dataWidth, w) == l + dataWidth
enqueueLength(l, dataWidth, w) == IF l + dataWidth > w THEN w ELSE l + dataWidth

enqueue(src) ==
    LET dataWidth == ArrayLen(src) \div (elementSize * height)
        grown == length + dataWidth
    IN  /\ data' = enqueueLoop(data, 0, dataWidth, start, length, width, height, src)
        /\ length' = enqueueLength(length, dataWidth, width)
        /\ start' = IF grown > width THEN enqueueStart(start, grown, width) ELSE start
        /\ UNCHANGED <<width, height>>

resizeLengthMut(l, w) == l
resizeLength(l, w) == IF l >= w THEN w ELSE l

RECURSIVE resizeLoop(_, _, _, _, _, _, _, _)
resizeLoop(newData, i, n, s, l, oldW, h, d) ==
    IF i >= n THEN newData
    ELSE resizeLoop(SetColumn(newData, n - i - 1, h, d, mod(s + l - i - 1, oldW)),
                    i + 1, n, s, l, oldW, h, d)

resizeWidth(w) ==
    IF w = width
    THEN UNCHANGED bufVars
    ELSE /\ data' = resizeLoop(ZeroArray(w * height * elementSize), 0, Min(length, w),
                               start, length, width, height, data)
         /\ width' = w
         /\ length' = resizeLength(length, w)
         /\ start' = 0
         /\ UNCHANGED height

clearMut ==
    /\ data' = ZeroArray(width * height * elementSize)
    /\ length' = 0
    /\ UNCHANGED <<start, width, height>>
clear ==
    /\ data' = ZeroArray(width * height * elementSize)
    /\ start' = 0
    /\ length' = 0
    /\ UNCHANGED <<width, height>>

\* the columns at positions (s + i) mod w, i = 0..l-1, oldest first
Read(s, l, w, h, d) ==
    [i \in 1..l |-> [r \in 1..h |-> d[mod(s + i - 1, w) * h + (r - 1)]]]

Snapshot ==
    [start |-> start, length |-> length, width |-> width, height |-> height, data |-> data]

----------------------------------------------------------------------------
\* SpectrogramGPURenderer: the spectrogram texture

\* lastSpectrogramStart before the first upload and after resizeCanvas
null == 0 - 1

\* texImage2D(TEXTURE_2D, 0, LUMINANCE, h, w, 0, LUMINANCE, FLOAT, d): the texture
\* becomes an image of w rows of h texels, row x holding column x of the buffer
texImage2D(h, w, d) == [p \in 0..(h * w - 1) |-> IF p \in DOMAIN d THEN d[p] ELSE 0]

\* texSubImage2D(TEXTURE_2D, 0, 0, dataStart, w, h, LUMINANCE, FLOAT,
\*               d.subarray(dataStart * w, (dataStart + h) * w))
\* a region that does not fit the texture, or a source that is too short, is a
\* GL error and leaves the texture as it was
updateSpectrogramPartialMut(tex, w, h, dataStart, d) ==
    IF (dataStart + h + 1) * w <= ArrayLen(tex) /\ (dataStart + h + 1) * w <= ArrayLen(d)
    THEN [p \in DOMAIN tex |->
            IF p >= dataStart * w /\ p < (dataStart + h + 1) * w THEN d[p] ELSE tex[p]]
    ELSE tex
updateSpectrogramPartial(tex, w, h, dataStart, d) ==
    IF (dataStart + h) * w <= ArrayLen(tex) /\ (dataStart + h) * w <= ArrayLen(d)
    THEN [p \in DOMAIN tex |->
            IF p >= dataStart * w /\ p < (dataStart + h) * w THEN d[p] ELSE tex[p]]
    ELSE tex

\* the updateSpectrogramPartial calls of a call that does not upload the whole
\* buffer, in order, as <<height, dataStart>>
partialUploadsMut == <<<<width, 0>>>>
partialUploads ==
    IF start # lastSpectrogramStart
    THEN IF start >= lastSpectrogramStart
         THEN <<<<start - lastSpectrogramStart, lastSpectrogramStart>>>>
         ELSE <<<<start, 0>>, <<width - lastSpectrogramStart, lastSpectrogramStart>>>>
    ELSE IF length > lastSpectrogramLength
    THEN <<<<length - lastSpectrogramLength, lastSpectrogramLength>>>>
    ELSE <<>>

RECURSIVE applyUploads(_, _)
applyUploads(tex, calls) ==
    IF calls = <<>> THEN tex
    ELSE applyUploads(updateSpectrogramPartial(tex, height, Head(calls)[1], Head(calls)[2],
                                               data),
                      Tail(calls))

uploadTexture(forceFullRender) ==
    IF forceFullRender \/ lastSpectrogramStart = null
    THEN texImage2D(height, width, data)
    ELSE applyUploads(texture, partialUploads)

\* the number of buffer columns the call hands to the GL
RECURSIVE SumHeights(_)
SumHeights(calls) == IF calls = <<>> THEN 0 ELSE Head(calls)[1] + SumHeights(Tail(calls))

uploadedColumns(forceFullRender) ==
    IF forceFullRender \/ lastSpectrogramStart = null
    THEN width
    ELSE SumHeights(partialUploads)

\* -0.5 / w + l / w
uniformLengthMut(l, w) == <<2 * l + 1, 2 * w>>
uniformLength(l, w) == <<2 * l - 1, 2 * w>>

updateSpectrogram(forceFullRender) ==
    /\ texture' = uploadTexture(forceFullRender)
    /\ lastSpectrogramLength' = length
    /\ lastSpectrogramStart' = start
    /\ spectrogramOffset' = <<start, width>>
    /\ spectrogramLength' = uniformLength(length, width)

RECURSIVE GCD(_, _)
GCD(a, b) == IF b = 0 THEN a ELSE GCD(b, a % b)

\* n / d in lowest terms, as <<num, den>>
Ratio(n, d) == <<n \div GCD(n, d), d \div GCD(n, d)>>

resizeCanvasMut(w) ==
    /\ resizeHandlerZoomOverride' = <<1, 1>>
    /\ resizeHandlerLastRealWidth' = w
    /\ UNCHANGED <<lastSpectrogramStart, lastSpectrogramLength, spectrogramOffset,
                   spectrogramLength, texture>>
resizeCanvas(w) ==
    /\ lastSpectrogramStart' = null
    /\ resizeHandlerZoomOverride' = <<1, 1>>
    /\ resizeHandlerLastRealWidth' = w
    /\ UNCHANGED <<lastSpectrogramLength, spectrogramOffset, spectrogramLength, texture>>

fastResizeCanvas(w) ==
    /\ resizeHandlerZoomOverride' = Ratio(resizeHandlerLastRealWidth, w)
    /\ UNCHANGED <<resizeHandlerLastRealWidth, gpuVars>>

----------------------------------------------------------------------------
\* Fragment shader: which rows of the spectrogram texture a pixel reads

\* the spectrogram texture is sampled with TEXTURE_MIN_FILTER = TEXTURE_MAG_FILTER
\* = LINEAR and CLAMP_TO_EDGE: at coordinate sNum / sDen over n rows the sample
\* blends rows floor(u) and floor(u) + 1, u = n * sNum / sDen - 1/2, clamped to
\* 0..n-1; the second row has weight frac(u)
ClampRow(i, n) == Max(0, Min(n - 1, i))

LinearRows(sNum, sDen, n) ==
    LET uNum == 2 * sNum * n - sDen
        uDen == 2 * sDen
        i0 == uNum \div uDen
    IN  {ClampRow(i0, n)} \cup (IF uNum % uDen # 0 THEN {ClampRow(i0 + 1, n)} ELSE {})

\* (vVertexTexCoord.x - 1.0) / uZoom + uSpectrogramLength, as <<num, den>>,
\* for x = <<xn, xd>>, zoom = <<zn, zd>>, uLength = <<ln, ld>>
shaderT(x, zoom, uLength) ==
    <<(x[1] - x[2]) * zoom[2] * uLength[2] + uLength[1] * x[2] * zoom[1],
      x[2] * zoom[1] * uLength[2]>>

intensityForcedMut(t) == t[1] < 0
intensityForced(t) == t[1] <= 0

\* sampleY = mod(clamp(t, 0.0, 1.0) + uSpectrogramOffset, 1.0), as <<num, den>>
sampleY(t, uOffset) ==
    LET c == IF t[1] < 0 THEN 0 ELSE IF t[1] > t[2] THEN t[2] ELSE t[1]
        den == t[2] * uOffset[2]
    IN  <<(c * uOffset[2] + uOffset[1] * t[2]) % den, den>>

main(x, zoom) ==
    LET t == shaderT(x, zoom, spectrogramLength)
        y == sampleY(t, spectrogramOffset)
    IN  [forced |-> intensityForced(t),
         rows |-> LinearRows(y[1], y[2], ArrayLen(texture) \div height)]

----------------------------------------------------------------------------
\* generateSpectrogram: window count, result size and failures.  The amplitudes
\* written into the result are not modelled.

\* a destructured option that the caller left out
undefined == 0 - 1

Scales == {"linear", "mel"}

Ceil(a, b) == 0 - ((0 - a) \div b)

\* Math.ceil(samplesLength / windowStepSize) - Math.floor(windowSize / windowStepSize) + 1
numWindowsBaseMut(samplesLength, windowSize, windowStepSize) ==
    Ceil(samplesLength, windowStepSize) - (windowSize \div windowStepSize)
numWindowsBase(samplesLength, windowSize, windowStepSize) ==
    Ceil(samplesLength, windowStepSize) - (windowSize \div windowStepSize) + 1

additionalWindowsMut(windowSize, windowStepSize) == windowSize \div windowStepSize
additionalWindows(windowSize, windowStepSize) == (windowSize \div windowStepSize) - 1

numWindowsOf(a) ==
    numWindowsBase(a.samplesLength, a.windowSize, a.windowStepSize)
      + (IF a.isStart THEN additionalWindows(a.windowSize, a.windowStepSize) ELSE 0)
      + (IF a.isEnd THEN additionalWindows(a.windowSize, a.windowStepSize) ELSE 0)

startIdxOf(a) ==
    IF a.isStart
    THEN a.samplesStart - additionalWindows(a.windowSize, a.windowStepSize) * a.windowStepSize
    ELSE a.samplesStart

\* twice the scaleSize used: the default windowSize / 2 is not whole for odd sizes
scaleSize2Of(a) == IF a.scaleSize = undefined THEN a.windowSize ELSE 2 * a.scaleSize

\* the length of new Float32Array(n2 / 2): n2 / 2 truncated towards zero
TypedArrayLength(n2) == IF n2 >= 0 THEN n2 \div 2 ELSE 0 - ((0 - n2) \div 2)

Thrown(e) == [status |-> "thrown", error |-> e, windowCount |-> 0, resultLength |-> 0,
              startIdx |-> 0]

\* window % step !== 0; x % 0 is NaN, which differs from 0
stepCheckFails(windowSize, windowStepSize) ==
    IF windowStepSize = 0 THEN TRUE ELSE JsRem(windowSize, windowStepSize) # 0

\* generateSpectrogramForSingleFrame reaches its switch on the scale only inside
\* the loop over j < scaleSize, itself inside the loop over the windows
singleFrameThrows(a) ==
    /\ numWindowsOf(a) * scaleSize2Of(a) > 0
    /\ a.scale \notin Scales

generateSpectrogram(a) ==
    IF stepCheckFails(a.windowSize, a.windowStepSize)
    THEN Thrown("Window step size must be evenly divisible by the window size")
    ELSE IF TypedArrayLength(scaleSize2Of(a) * numWindowsOf(a)) < 0
    THEN Thrown("RangeError: Invalid typed array length")
    ELSE IF singleFrameThrows(a)
    THEN Thrown("Unknown scale")
    ELSE [status |-> "returned", error |-> "",
          windowCount |-> numWindowsOf(a),
          resultLength |-> TypedArrayLength(scaleSize2Of(a) * numWindowsOf(a)),
          startIdx |-> startIdxOf(a)]

NoCall == [samplesStart |-> 0, samplesLength |-> 0, isStart |-> FALSE, isEnd |-> FALSE,
           windowSize |-> 1, windowStepSize |-> 1, scale |-> "linear",
           scaleSize |-> undefined]

NotCalled == [status |-> "none", error |-> "", windowCount |-> 0, resultLength |-> 0,
              startIdx |-> 0]

\* samples[idx]: the samples of the stream are told apart, and from the padding,
\* by standing each for its index
sample(idx) == idx + 1

\* windowSamples[j] for the window that starts at i
windowSampleMut(a, i, j) ==
    IF i + j < a.samplesStart \/ i + j > a.samplesStart + a.samplesLength
    THEN 0
    ELSE sample(i + j)
windowSample(a, i, j) ==
    IF i + j < a.samplesStart \/ i + j >= a.samplesStart + a.samplesLength
    THEN 0
    ELSE sample(i + j)

\* the loop over the windows: its variables i and windowIdx, and windowSamples
\* as it is passed to generateSpectrogramForSingleFrame
NoLoop == [pc |-> "idle", i |-> 0, windowIdx |-> 0, windowSamples |-> <<>>]

loopBegin(a) ==
    [pc |-> "loop", i |-> startIdxOf(a), windowIdx |-> 0,
     windowSamples |-> ZeroArray(a.windowSize)]

loopCondition(a, l) == l.windowIdx < numWindowsOf(a) * a.scaleSize

loopBody(a, l) ==
    [pc |-> IF a.scale \in Scales THEN "loop" ELSE "done",
     i |-> IF a.scale \in Scales THEN l.i + a.windowStepSize ELSE l.i,
     windowIdx |-> IF a.scale \in Scales THEN l.windowIdx + a.scaleSize ELSE l.windowIdx,
     windowSamples |-> [j \in 0..(a.windowSize - 1) |-> windowSample(a, l.i, j)]]

----------------------------------------------------------------------------
\* Worker pool (worker-util.ts) and helper worker

\* window.navigator.hardwareConcurrency || 4 workers; tasks submitted at most
PoolSize == 2
MaxTasks == 4

\* const CHANNELS = 2
Channels == 2

Workers == 1..PoolSize
Tasks == 1..MaxTasks

\* WORKER_POOL.find((w) => !w.busy): the first free worker, 0 when there is none
findFreeMut(pool) == 1
findFree(pool) ==
    IF \E w \in Workers : ~pool[w]
    THEN CHOOSE w \in Workers : ~pool[w] /\ \A v \in Workers : ~pool[v] => w <= v
    ELSE 0

\* releaseWorker(worker): the busy flags and queue it leaves, and the task whose
\* resolver it called (0 when nobody waits)
releaseWorkerMut(pool, queue, w) ==
    [pool |-> [pool EXCEPT ![w] = FALSE], queue |-> queue, next |-> 0]
releaseWorker(pool, queue, w) ==
    IF Len(queue) > 0
    THEN [pool |-> [pool EXCEPT ![w] = TRUE], queue |-> Tail(queue), next |-> Head(queue)]
    ELSE [pool |-> [pool EXCEPT ![w] = FALSE], queue |-> queue, next |-> 0]

\* 'error' in event.data ? reject(event.data.error) : resolve(event.data.payload)
settleMut(resp) == "resolved"
settle(resp) == IF resp = "error" THEN "rejected" ELSE "resolved"

\* worker-constants.ts
ACTION_COMPUTE_SPECTROGRAM == "spectrogram-compute"

\* the messages the helper worker's listener posts for one request, in order:
\* outcome is "payload" when generateSpectrogram returns and "error" when it
\* throws
workerPostsMut(action, outcome) ==
    IF action = ACTION_COMPUTE_SPECTROGRAM THEN <<outcome>> ELSE <<>>
workerPosts(action, outcome) ==
    IF action = ACTION_COMPUTE_SPECTROGRAM
    THEN IF outcome = "payload" THEN <<"payload">> ELSE <<"error">>
    ELSE <<"error">>

\* WORKER_QUEUE.push(resolve)
pushMut(queue, t) == <<t>> \o queue
push(queue, t) == Append(queue, t)

\* the state getFreeWorker() reads and writes for the tasks of queueTask
PoolState ==
    [pool |-> WORKER_POOL, queue |-> WORKER_QUEUE, promise |-> promise,
     taskWorker |-> taskWorker, microtasks |-> microtasks]

\* getFreeWorker() called for task t in pool state p: t takes the first free
\* worker, and its then-callback is queued as a microtask, or its resolver is
\* pushed on WORKER_QUEUE
getFreeWorker(p, t) ==
    LET w == findFree(p.pool)
    IN  IF w # 0
        THEN [p EXCEPT !.pool = [p.pool EXCEPT ![w] = TRUE],
                       !.promise = [p.promise EXCEPT ![t] = "granted"],
                       !.taskWorker = [p.taskWorker EXCEPT ![t] = w],
                       !.microtasks = Append(p.microtasks, t)]
        ELSE [p EXCEPT !.queue = push(p.queue, t),
                       !.promise = [p.promise EXCEPT ![t] = "waiting"]]

\* the pool after p
SetPoolState(p) ==
    /\ WORKER_POOL' = p.pool
    /\ WORKER_QUEUE' = p.queue
    /\ promise' = p.promise
    /\ taskWorker' = p.taskWorker
    /\ microtasks' = p.microtasks

\* queueTask up to the return of getFreeWorker()
queueTask(t) == SetPoolState(getFreeWorker(PoolState, t))

----------------------------------------------------------------------------
\* Render parameters and their smoothing (spectrogram-render.ts)
\*
\* The smoothed numbers are fixed point: <<whole, frac>> stands for
\* whole + frac / FracOne with 0 <= frac < FracOne.  One unit, 2^-30, lies just
\* below the 1e-9 of stepTowards, so "closer than 1e-9" is "at most one unit
\* apart"; halving rounds down to a unit.

FracOne == 1073741824

FxInt(n) == <<n, 0>>

FxLess(x, y) == x[1] < y[1] \/ (x[1] = y[1] /\ x[2] < y[2])

\* Math.abs(x - y) < 1e-9
absDiffBelowEpsilon(x, y) ==
    \/ x = y
    \/ x[1] = y[1] /\ (x[2] = y[2] + 1 \/ y[2] = x[2] + 1)
    \/ x[1] + 1 = y[1] /\ x[2] = FracOne - 1 /\ y[2] = 0
    \/ y[1] + 1 = x[1] /\ y[2] = FracOne - 1 /\ x[2] = 0

\* lerp(a, b, 0.5) = a + 0.5 * (b - a), the only amount render() passes
lerpHalf(a, b) ==
    LET w == a[1] + b[1]
        f == ((a[2] + b[2]) \div 2) + (IF w % 2 = 1 THEN FracOne \div 2 ELSE 0)
    IN  IF f >= FracOne THEN <<(w \div 2) + 1, f - FracOne>> ELSE <<w \div 2, f>>

stepTowardsMut(x, y) == lerpHalf(x, <<y[1] + 1, y[2]>>)
stepTowards(x, y) == IF absDiffBelowEpsilon(x, y) THEN y ELSE lerpHalf(x, y)

\* x + y
FxAdd(x, y) ==
    IF x[2] + y[2] >= FracOne
    THEN <<x[1] + y[1] + 1, x[2] + y[2] - FracOne>>
    ELSE <<x[1] + y[1], x[2] + y[2]>>

\* n * x for whole n >= 0
RECURSIVE FxTimes(_, _)
FxTimes(n, x) == IF n = 0 THEN FxInt(0) ELSE FxAdd(x, FxTimes(n - 1, x))

\* this.resizeHandlerZoomOverride * this.currentZoom for the override
\* <<num, den>>: the product num * zoom over den, as <<product, den>>
zoomUniformMut(override, zoom) == <<zoom, 1>>
zoomUniform(override, zoom) == <<FxTimes(override[1], zoom), override[2]>>

\* this.currentContrast < 0.05 (0.05 is 53687091.2 units)
ContrastFloorUnits == 53687091
belowContrastFloorMut(x) == x[1] < 0
belowContrastFloor(x) == x[1] < 0 \/ (x[1] = 0 /\ x[2] <= ContrastFloorUnits)

\* the first k binary digits of r / d, 0 <= r < d < FracOne
RECURSIVE FracDigits(_, _, _, _)
FracDigits(r, d, k, acc) ==
    IF k = 0 THEN acc
    ELSE LET b == IF 2 * r >= d THEN 1 ELSE 0
         IN  FracDigits(2 * r - b * d, d, k - 1, 2 * acc + b)

\* n / d for whole n >= 0, d > 0
FxDiv(n, d) == <<n \div d, FracDigits(n % d, d, 30, 0)>>

\* a field of a Partial<RenderParameters>, or of this.parameters?.
Undefined == [tag |-> "undefined"]
Null == [tag |-> "null"]
Value(v) == [tag |-> "value", v |-> v]

Fields == {"contrast", "sensitivity", "zoom", "minFrequencyHz", "maxFrequencyHz",
           "sampleRate", "windowSize", "scale", "gradient"}

\* the defaults of updateParameters
Default ==
    [contrast |-> FxInt(25), sensitivity |-> FxInt(25), zoom |-> FxInt(4),
     minFrequencyHz |-> 10, maxFrequencyHz |-> 12000, sampleRate |-> 48000,
     windowSize |-> 4096, scale |-> "mel", gradient |-> "HEATED_METAL_GRADIENT"]

\* the values callers supply: the sliders' ends, the file's sample rate, the
\* other choices of the scale and gradient selects
Supplied ==
    [contrast |-> {FxInt(25), FxInt(0)},
     sensitivity |-> {FxInt(25), FxInt(0)},
     zoom |-> {FxInt(4), FxInt(1)},
     minFrequencyHz |-> {10, 0},
     maxFrequencyHz |-> {12000, 20000},
     sampleRate |-> {48000, 44100},
     windowSize |-> {4096, 2048},
     scale |-> {"mel", "linear"},
     gradient |-> {"HEATED_METAL_GRADIENT", "AUDACITY_GRADIENT"}]

\* this.parameters = null, read through this.parameters?.
NullParameters == [f \in Fields |-> Undefined]

EmptyPartial == [f \in Fields |-> Undefined]

\* the partials of the callers: {} (constructor), one field (settings UI), and
\* {windowSize, sampleRate} (bufferCallbacks)
Partials ==
    {EmptyPartial}
      \cup {[EmptyPartial EXCEPT ![f] = x] :
               f \in Fields, x \in {Null}}
      \cup UNION {{[EmptyPartial EXCEPT ![f] = Value(v)] : v \in Supplied[f]} : f \in Fields}
      \cup {[EmptyPartial EXCEPT !["windowSize"] = Value(ws), !["sampleRate"] = Value(sr)] :
               ws \in Supplied["windowSize"], sr \in Supplied["sampleRate"]}

mergeMut(newValue, oldValue, defaultValue) ==
    IF newValue.tag = "value" THEN newValue.v ELSE defaultValue
merge(newValue, oldValue, defaultValue) ==
    IF newValue.tag = "value" THEN newValue.v
    ELSE IF oldValue.tag = "value" THEN oldValue.v
    ELSE defaultValue

\* Math.log(1 + hz / 700) / Math.log(1 + peakHz / 700) in units, rounded down,
\* peakHz = sampleRate * (windowSize - 2) / (2 * windowSize), for the
\* frequencies, sample rates and window sizes of Supplied
MelUnits ==
    (<<0, 48000, 4096>> :> 0) @@ (<<10, 48000, 4096>> :> 4274661)
      @@ (<<12000, 48000, 4096>> :> 873420710) @@ (<<20000, 48000, 4096>> :> 1020643947)
      @@ (<<0, 48000, 2048>> :> 0) @@ (<<10, 48000, 2048>> :> 4275231)
      @@ (<<12000, 48000, 2048>> :> 873537112) @@ (<<20000, 48000, 2048>> :> 1020779969)
      @@ (<<0, 44100, 4096>> :> 0) @@ (<<10, 44100, 4096>> :> 4375655)
      @@ (<<12000, 44100, 4096>> :> 894056228) @@ (<<20000, 44100, 4096>> :> 1044757774)
      @@ (<<0, 44100, 2048>> :> 0) @@ (<<10, 44100, 2048>> :> 4376250)
      @@ (<<12000, 44100, 2048>> :> 894177890) @@ (<<20000, 44100, 2048>> :> 1044899943)

\* updateScaleRange: the new this.scaleRange; hz / peakHz is
\* hz * 2 * windowSize / (sampleRate * (windowSize - 2))
updateScaleRange(scale, minFrequencyHz, maxFrequencyHz, sampleRate, windowSize) ==
    IF scale = "linear"
    THEN <<FxDiv(minFrequencyHz * 2 * windowSize, sampleRate * (windowSize - 2)),
           FxDiv(maxFrequencyHz * 2 * windowSize, sampleRate * (windowSize - 2))>>
    ELSE <<<<0, MelUnits[<<minFrequencyHz, sampleRate, windowSize>>]>>,
           <<0, MelUnits[<<maxFrequencyHz, sampleRate, windowSize>>]>>>>

\* the fields whose change recomputes the scale range, and those whose change
\* rebuilds the scale texture and sets currentScaleRange = scaleRange
GradientFields == {"gradient"}
ScaleRangeFieldsMut == Fields
ScaleRangeFields == {"scale", "minFrequencyHz", "maxFrequencyHz", "sampleRate", "windowSize"}
ScaleTextureFieldsMut == {"scale"}
ScaleTextureFields == {"scale", "sampleRate", "windowSize"}

\* the renderer's parameter fields as a record, and their initialisers
RendererFields ==
    [parameters |-> parameters, scaleRange |-> scaleRange,
     currentScaleRange |-> currentScaleRange]

FieldInitialisers ==
    [parameters |-> NullParameters, scaleRange |-> <<FxInt(0), FxInt(0)>>,
     currentScaleRange |-> <<FxInt(0), FxInt(0)>>]

\* merge(parameters.f, this.parameters?.f, default of f)
Merged(r, partial, f) == merge(partial[f], r.parameters[f], Default[f])

\* this.parameters === null || this.parameters.f !== newParameters.f for an f of fs
FirstOrChanged(r, partial, fs) ==
    \/ r.parameters = NullParameters
    \/ \E f \in fs : r.parameters[f] # Value(Merged(r, partial, f))

\* updateParameters(partial) on the fields r: the fields it leaves, and the
\* methods it called
updateParameters(r, partial) ==
    LET newScaleRange ==
            IF FirstOrChanged(r, partial, ScaleRangeFields)
            THEN updateScaleRange(Merged(r, partial, "scale"),
                                  Merged(r, partial, "minFrequencyHz"),
                                  Merged(r, partial, "maxFrequencyHz"),
                                  Merged(r, partial, "sampleRate"),
                                  Merged(r, partial, "windowSize"))
            ELSE r.scaleRange
    IN  [parameters |-> [f \in Fields |-> Value(Merged(r, partial, f))],
         scaleRange |-> newScaleRange,
         currentScaleRange |->
            IF FirstOrChanged(r, partial, ScaleTextureFields)
            THEN newScaleRange
            ELSE r.currentScaleRange,
         calls |->
            (IF FirstOrChanged(r, partial, GradientFields)
             THEN {"updateGradientTexture"} ELSE {})
              \cup (IF FirstOrChanged(r, partial, ScaleRangeFields)
                    THEN {"updateScaleRange"} ELSE {})
              \cup (IF FirstOrChanged(r, partial, ScaleTextureFields)
                    THEN {"updateScaleTexture"} ELSE {})]

\* the smoothed parameters and their targets
Smoothed == {"scaleRange0", "scaleRange1", "contrast", "sensitivity", "zoom"}

Current(c) ==
    CASE c = "scaleRange0" -> currentScaleRange[1]
      [] c = "scaleRange1" -> currentScaleRange[2]
      [] c = "contrast" -> currentContrast
      [] c = "sensitivity" -> currentSensitivity
      [] c = "zoom" -> currentZoom

Target(c) ==
    CASE c = "scaleRange0" -> scaleRange[1]
      [] c = "scaleRange1" -> scaleRange[2]
      [] c = "contrast" -> parameters.contrast.v
      [] c = "sensitivity" -> parameters.sensitivity.v
      [] c = "zoom" -> parameters.zoom.v

\* render(): the smoothing step of every parameter
render ==
    /\ currentScaleRange' = <<stepTowards(currentScaleRange[1], scaleRange[1]),
                              stepTowards(currentScaleRange[2], scaleRange[2])>>
    /\ currentContrast' =
          LET c == stepTowards(currentContrast, parameters.contrast.v)
          IN  IF belowContrastFloor(c) THEN FxInt(0) ELSE c
    /\ currentSensitivity' = stepTowards(currentSensitivity, parameters.sensitivity.v)
    /\ currentZoom' = stepTowards(currentZoom, parameters.zoom.v)

----------------------------------------------------------------------------
\* Operations on one buffer

InitBuf ==
    /\ width \in 1..MaxWidth
    /\ height \in 1..MaxHeight
    /\ start = 0
    /\ length = 0
    /\ data = ZeroArray(width * height * elementSize)

InitHist ==
    /\ total = 0
    /\ lastOp = [op |-> "new", arg |-> 0]
    /\ prev = Snapshot
    /\ seen = {}

InitGPU ==
    /\ lastSpectrogramStart = null
    /\ lastSpectrogramLength = 0
    /\ spectrogramOffset = <<0, 1>>
    /\ spectrogramLength = <<0, 1>>
    /\ texture = ZeroArray(height * width)
    /\ pixel = [forced |-> TRUE, rows |-> {}]

InitGen ==
    /\ genIn = NoCall
    /\ genOut = NotCalled
    /\ genLoop = NoLoop

InitPool ==
    /\ WORKER_POOL = [w \in Workers |-> FALSE]
    /\ WORKER_QUEUE = <<>>
    /\ promise = [t \in Tasks |-> "unsubmitted"]
    /\ taskWorker = [t \in Tasks |-> 0]
    /\ listener = [w \in Workers |-> 0]
    /\ microtasks = <<>>
    /\ request = [w \in Workers |-> 0]
    /\ requestAction = [w \in Workers |-> "none"]
    /\ response = [w \in Workers |-> "none"]
    /\ posted = <<>>
    /\ poolOp = [op |-> "none", task |-> 0, worker |-> 0, error |-> FALSE, next |-> 0]

\* the renderer after its constructor, which ends with updateParameters({})
InitParams ==
    LET r == updateParameters(FieldInitialisers, EmptyPartial)
    IN  /\ parameters = r.parameters
        /\ scaleRange = r.scaleRange
        /\ currentScaleRange = r.currentScaleRange
        /\ currentContrast = FxInt(25)
        /\ currentSensitivity = FxInt(25)
        /\ currentZoom = FxInt(4)
        /\ paramOp = [op |-> "updateParameters", partial |-> EmptyPartial, first |-> TRUE,
                      changed |-> {}, before |-> FieldInitialisers.currentScaleRange,
                      rest |-> {}, calls |-> r.calls]
        /\ lastSupplied = Default
        /\ updates = 0

\* startRenderingSpectrogram calls resizeCanvas(offsetWidth, offsetHeight) on the
\* new renderer
InitCanvas ==
    /\ resizeHandlerLastRealWidth = width
    /\ resizeHandlerZoomOverride = <<1, 1>>
    /\ invalidated = TRUE

InitDriver ==
    /\ source = "none"
    /\ bufferCallbackPromise = "null"
    /\ channelData = [c \in 0..(Channels - 1) |-> c + 1]
    /\ taskBuffer = [t \in Tasks |-> 0]
    /\ enqueued = <<>>
    /\ imageDirty = FALSE
    /\ inFlightAtClear = {}
    /\ channelBuffers = [c \in 0..(Channels - 1) |-> <<>>]
    /\ isStart = TRUE
    /\ chunksReceived = 0
    /\ columnsRequested = 0
    /\ micOp = [op |-> "none"]
    /\ nextSample = 0
    /\ isStopping = FALSE
    /\ playhead = 0
    /\ audioEnded = FALSE
    /\ lastWindowStart = null
    /\ fileOp = [op |-> "none"]

Init ==
    InitBuf /\ InitHist /\ InitGPU /\ InitGen /\ InitPool /\ InitParams /\ InitCanvas
      /\ InitDriver

\* one buffer and renderer of the largest size
InitRenderer == Init /\ width = MaxWidth /\ height = MaxHeight

Enqueue(k) ==
    /\ total + k <= MaxTotal
    /\ enqueue(ColumnsArray(total + 1, k, height))
    /\ total' = total + k
    /\ lastOp' = [op |-> "enqueue", arg |-> k,
                  since |-> k + (IF lastOp.op = "enqueue" THEN lastOp.since ELSE 0)]
    /\ prev' = Snapshot
    /\ seen' = seen \cup {"enqueue"}
    /\ UNCHANGED <<gpuVars, pixel, genVars, poolVars, paramVars, paramHist, canvasVars,
                   driverVars>>

ResizeWidth(w) ==
    /\ resizeWidth(w)
    /\ lastOp' = [op |-> "resizeWidth", arg |-> w]
    /\ prev' = Snapshot
    /\ seen' = seen \cup {"resizeWidth"}
    /\ UNCHANGED <<total, gpuVars, pixel, genVars, poolVars, paramVars, paramHist,
                   canvasVars, driverVars>>

Clear ==
    /\ clear
    /\ lastOp' = [op |-> "clear", arg |-> 0]
    /\ prev' = Snapshot
    /\ seen' = seen \cup {"clear"}
    /\ UNCHANGED <<total, gpuVars, pixel, genVars, poolVars, paramVars, paramHist,
                   canvasVars, driverVars>>

NextEnq == \E k \in 0..MaxColumns : Enqueue(k)

SpecEnq == Init /\ [][NextEnq]_vars

NextBuf ==
    \/ \E k \in 0..MaxColumns : Enqueue(k)
    \/ \E w \in 1..MaxWidth : ResizeWidth(w)
    \/ Clear

SpecBuf == Init /\ [][NextBuf]_vars

----------------------------------------------------------------------------
\* The renderer fed from one buffer

\* screen x in [0, 1] and effective zoom > 0 of the pixels drawn, as <<num, den>>
XDen == 6
Zooms == {<<1, 2>>, <<1, 1>>, <<3, 2>>, <<4, 1>>}

UpdateSpectrogram(forceFullRender) ==
    /\ updateSpectrogram(forceFullRender)
    /\ lastOp' = [op |-> "updateSpectrogram", arg |-> IF forceFullRender THEN 1 ELSE 0,
                  first |-> invalidated, was |-> lastSpectrogramStart,
                  uploaded |-> uploadedColumns(forceFullRender)]
    /\ prev' = Snapshot
    /\ seen' = seen \cup {IF forceFullRender \/ lastSpectrogramStart = null
                           THEN "fullUpload" ELSE "partialUpload"}
    /\ invalidated' = FALSE
    /\ UNCHANGED <<resizeHandlerLastRealWidth, resizeHandlerZoomOverride>>
    /\ UNCHANGED <<bufVars, total, pixel, genVars, poolVars, paramVars, paramHist,
                   driverVars>>

\* index.ts resizeHandler: resizeWidth, resizeCanvas, updateSpectrogram
ResizeHandler(w) ==
    /\ resizeWidth(w)
    /\ texture' = texImage2D(height', width', data')
    /\ lastSpectrogramLength' = length'
    /\ lastSpectrogramStart' = start'
    /\ spectrogramOffset' = <<start', width'>>
    /\ spectrogramLength' = uniformLength(length', width')
    /\ lastOp' = [op |-> "resizeHandler", arg |-> w]
    /\ prev' = Snapshot
    /\ seen' = seen \cup {"resizeWidth", "fullUpload"}
    /\ resizeHandlerZoomOverride' = <<1, 1>>
    /\ resizeHandlerLastRealWidth' = w
    /\ invalidated' = FALSE
    /\ UNCHANGED <<total, pixel, genVars, poolVars, paramVars, paramHist, driverVars>>

\* index.ts clearCallback: clear, updateSpectrogram(buffer, true)
ClearCallback ==
    /\ clear
    /\ texture' = texImage2D(height', width', data')
    /\ lastSpectrogramLength' = length'
    /\ lastSpectrogramStart' = start'
    /\ spectrogramOffset' = <<start', width'>>
    /\ spectrogramLength' = uniformLength(length', width')
    /\ lastOp' = [op |-> "clearCallback", arg |-> 0]
    /\ prev' = Snapshot
    /\ seen' = seen \cup {"clear", "fullUpload"}
    /\ invalidated' = FALSE
    /\ inFlightAtClear' = {t \in Tasks : promise[t] \in {"waiting", "granted", "posted"}}
    /\ UNCHANGED <<micVars, fileVars>>
    /\ UNCHANGED <<resizeHandlerLastRealWidth, resizeHandlerZoomOverride>>
    /\ UNCHANGED <<source, bufferCallbackPromise, channelData, taskBuffer, enqueued,
                   imageDirty>>
    /\ UNCHANGED <<total, pixel, genVars, poolVars, paramVars, paramHist>>

\* one pixel of the draw call issued by render()
FragmentMain(x, zoom) ==
    /\ pixel' = main(x, zoom)
    /\ lastOp' = [op |-> "main", arg |-> 0]
    /\ UNCHANGED <<bufVars, gpuVars, total, prev, seen, genVars, poolVars, paramVars,
                   paramHist, canvasVars, driverVars>>

NextUpload ==
    \/ \E k \in 0..MaxColumns : Enqueue(k)
    \/ UpdateSpectrogram(FALSE)

SpecUpload == Init /\ [][NextUpload]_vars

Next ==
    \/ \E k \in 0..MaxColumns : Enqueue(k)
    \/ \E f \in BOOLEAN : UpdateSpectrogram(f)
    \/ \E w \in 1..MaxWidth : ResizeHandler(w)
    \/ ClearCallback
    \/ \E xn \in 0..XDen, zoom \in Zooms : FragmentMain(<<xn, XDen>>, zoom)

Spec == Init /\ [][Next]_vars

----------------------------------------------------------------------------
\* The renderer's own calls: updateSpectrogram, resizeCanvas, fastResizeCanvas

ResizeCanvas(w) ==
    /\ resizeCanvas(w)
    /\ invalidated' = TRUE
    /\ lastOp' = [op |-> "resizeCanvas", arg |-> w]
    /\ seen' = seen \cup {"resizeCanvas"}
    /\ UNCHANGED <<bufVars, total, prev, pixel, genVars, poolVars, paramVars, paramHist,
                   driverVars>>

FastResizeCanvas(w) ==
    /\ fastResizeCanvas(w)
    /\ lastOp' = [op |-> "fastResizeCanvas", arg |-> w]
    /\ seen' = seen \cup {"fastResizeCanvas"}
    /\ UNCHANGED <<bufVars, total, prev, pixel, invalidated, genVars, poolVars, paramVars,
                   paramHist, driverVars>>

NextCanvas ==
    \/ \E k \in 0..MaxColumns : Enqueue(k)
    \/ \E f \in BOOLEAN : UpdateSpectrogram(f)
    \/ \E w \in 1..MaxWidth : ResizeCanvas(w)
    \/ \E w \in 1..MaxWidth : FastResizeCanvas(w)

SpecCanvas == Init /\ [][NextCanvas]_vars

----------------------------------------------------------------------------
\* Calls of generateSpectrogram

MaxSamples == 6
MaxWindow == 4
MaxScaleSize == 2

GenInputs ==
    [samplesStart : 0..1,
     samplesLength : (0..MaxSamples) \cup {3072, 4096},
     isStart : BOOLEAN,
     isEnd : BOOLEAN,
     windowSize : (1..MaxWindow) \cup {4096},
     windowStepSize : (0..MaxWindow) \cup {1024},
     scale : Scales \cup {"log"},
     scaleSize : (0..MaxScaleSize) \cup {undefined, 2048}]

\* the function is pure: one call per behaviour reaches every outcome
GenerateSpectrogram ==
    /\ genOut.status = "none"
    /\ \E a \in GenInputs :
          /\ genIn' = a
          /\ genOut' = generateSpectrogram(a)
    /\ UNCHANGED genLoop
    /\ UNCHANGED <<bufVars, histVars, gpuVars, pixel, poolVars, paramVars, paramHist,
                   canvasVars, driverVars>>

NextGen == GenerateSpectrogram

SpecGen == Init /\ [][NextGen]_vars

\* one call followed through its loop, for small windows and a given scaleSize
WindowInputs ==
    [samplesStart : 0..1,
     samplesLength : 0..MaxSamples,
     isStart : BOOLEAN,
     isEnd : BOOLEAN,
     windowSize : 1..MaxWindow,
     windowStepSize : 1..MaxWindow,
     scale : Scales \cup {"log"},
     scaleSize : 0..MaxScaleSize]

\* the call up to the loop: the step check and the allocation of the result
GenerateBegin ==
    /\ genLoop.pc = "idle"
    /\ \E a \in WindowInputs :
          /\ genIn' = a
          /\ IF stepCheckFails(a.windowSize, a.windowStepSize)
                  \/ TypedArrayLength(scaleSize2Of(a) * numWindowsOf(a)) < 0
             THEN /\ genOut' = generateSpectrogram(a)
                  /\ genLoop' = [NoLoop EXCEPT !.pc = "done"]
             ELSE /\ genOut' = NotCalled
                  /\ genLoop' = loopBegin(a)
    /\ UNCHANGED <<bufVars, histVars, gpuVars, pixel, poolVars, paramVars, paramHist,
                   canvasVars, driverVars>>

\* one test of the loop condition: the next window, or the return
GenerateWindow ==
    /\ genLoop.pc = "loop"
    /\ IF loopCondition(genIn, genLoop)
       THEN /\ genLoop' = loopBody(genIn, genLoop)
            /\ genOut' = IF genIn.scale \in Scales THEN genOut ELSE Thrown("Unknown scale")
       ELSE /\ genLoop' = [genLoop EXCEPT !.pc = "done"]
            /\ genOut' = [status |-> "returned", error |-> "",
                          windowCount |-> numWindowsOf(genIn),
                          resultLength |-> TypedArrayLength(scaleSize2Of(genIn)
                                                              * numWindowsOf(genIn)),
                          startIdx |-> startIdxOf(genIn)]
    /\ UNCHANGED genIn
    /\ UNCHANGED <<bufVars, histVars, gpuVars, pixel, poolVars, paramVars, paramHist,
                   canvasVars, driverVars>>

NextWindows ==
    \/ GenerateBegin
    \/ GenerateWindow

SpecWindows == InitRenderer /\ [][NextWindows]_vars

----------------------------------------------------------------------------
\* Steps of the worker pool

Settled(t) == promise[t] \in {"resolved", "rejected"}

\* a caller submits the next task
QueueTask(t) ==
    /\ promise[t] = "unsubmitted"
    /\ \A u \in Tasks : u < t => promise[u] # "unsubmitted"
    /\ queueTask(t)
    /\ poolOp' = [op |-> "queueTask", task |-> t, worker |-> 0, error |-> FALSE, next |-> 0]
    /\ UNCHANGED <<listener, request, requestAction, response, posted>>
    /\ UNCHANGED <<bufVars, histVars, gpuVars, pixel, genVars, paramVars, paramHist,
                   canvasVars, driverVars>>

\* the oldest then-callback of getFreeWorker(): addEventListener and postMessage
ThenCallback(t) ==
    /\ Len(microtasks) > 0
    /\ t = Head(microtasks)
    /\ microtasks' = Tail(microtasks)
    /\ promise' = [promise EXCEPT ![t] = "posted"]
    /\ listener' = [listener EXCEPT ![taskWorker[t]] = t]
    /\ request' = [request EXCEPT ![taskWorker[t]] = t]
    /\ requestAction' = [requestAction EXCEPT ![taskWorker[t]] = ACTION_COMPUTE_SPECTROGRAM]
    /\ posted' = Append(posted, t)
    /\ poolOp' = [op |-> "then", task |-> t, worker |-> taskWorker[t], error |-> FALSE,
                  next |-> 0]
    /\ UNCHANGED <<WORKER_POOL, WORKER_QUEUE, taskWorker, response>>
    /\ UNCHANGED <<bufVars, histVars, gpuVars, pixel, genVars, paramVars, paramHist,
                   canvasVars, driverVars>>

\* the helper worker's message listener for the request it received: the switch
\* on the action, and the try around generateSpectrogram, whose outcome is
\* "payload" (it returns) or "error" (it throws); the messages it posts reach
\* the listener of the main thread one by one
WorkerOnMessage(w, outcome) ==
    /\ request[w] # 0
    /\ request' = [request EXCEPT ![w] = 0]
    /\ requestAction' = [requestAction EXCEPT ![w] = "none"]
    /\ LET posts == workerPosts(requestAction[w], outcome)
       IN  /\ response' = [response EXCEPT ![w] = IF posts = <<>> THEN response[w]
                                                  ELSE posts[Len(posts)]]
           /\ poolOp' = [op |-> "worker", task |-> request[w], worker |-> w,
                         error |-> (posts # <<>> /\ posts[Len(posts)] = "error"),
                         next |-> 0,
                         action |-> requestAction[w], outcome |-> outcome, posts |-> posts]
    /\ UNCHANGED <<WORKER_POOL, WORKER_QUEUE, promise, taskWorker, listener, microtasks,
                   posted>>
    /\ UNCHANGED <<bufVars, histVars, gpuVars, pixel, genVars, paramVars, paramHist,
                   canvasVars, driverVars>>

\* messageHandler of the task listening on worker w; it runs as a task of the
\* event loop, so after every pending then-callback
messageHandler(w) ==
    /\ response[w] # "none"
    /\ listener[w] # 0
    /\ microtasks = <<>>
    /\ LET t == listener[w]
           r == releaseWorker(WORKER_POOL, WORKER_QUEUE, w)
       IN  /\ WORKER_POOL' = r.pool
           /\ WORKER_QUEUE' = r.queue
           /\ promise' = [u \in Tasks |->
                            IF u = t THEN settle(response[w])
                            ELSE IF u = r.next THEN "granted"
                            ELSE promise[u]]
           /\ taskWorker' = [u \in Tasks |-> IF u = r.next THEN w ELSE taskWorker[u]]
           /\ microtasks' = IF r.next # 0 THEN Append(microtasks, r.next) ELSE microtasks
           /\ poolOp' = [op |-> "messageHandler", task |-> t, worker |-> w,
                         error |-> (response[w] = "error"),
                         next |-> IF Len(WORKER_QUEUE) > 0 THEN Head(WORKER_QUEUE) ELSE 0]
    /\ listener' = [listener EXCEPT ![w] = 0]
    /\ response' = [response EXCEPT ![w] = "none"]
    /\ UNCHANGED <<request, requestAction, posted>>

MessageHandler(w) ==
    /\ messageHandler(w)
    /\ UNCHANGED <<bufVars, histVars, gpuVars, pixel, genVars, paramVars, paramHist,
                   canvasVars, driverVars>>

NextPool ==
    \/ \E t \in Tasks : QueueTask(t)
    \/ \E t \in Tasks : ThenCallback(t)
    \/ \E w \in Workers, outcome \in {"payload", "error"} : WorkerOnMessage(w, outcome)
    \/ \E w \in Workers : MessageHandler(w)

\* the event loop runs every pending callback, and every worker answers each
\* request it received; nothing obliges callers to submit
PoolFairness ==
    /\ \A t \in Tasks : WF_vars(ThenCallback(t))
    /\ \A w \in Workers : WF_vars(\E outcome \in {"payload", "error"} : WorkerOnMessage(w, outcome))
    /\ \A w \in Workers : WF_vars(MessageHandler(w))

SpecPool == InitRenderer /\ [][NextPool]_vars /\ PoolFairness

\* One helper worker seen from outside the pool: messages posted to it with any
\* action, nobody listening for its responses
RequestActions == {ACTION_COMPUTE_SPECTROGRAM, "unknown"}

\* worker.postMessage({action, payload}), the messages numbered as they are posted
PostMessage(w, action) ==
    /\ Len(posted) < MaxTasks
    /\ request[w] = 0
    /\ response[w] = "none"
    /\ request' = [request EXCEPT ![w] = Len(posted) + 1]
    /\ requestAction' = [requestAction EXCEPT ![w] = action]
    /\ posted' = Append(posted, Len(posted) + 1)
    /\ poolOp' = [op |-> "postMessage", task |-> Len(posted) + 1, worker |-> w,
                  error |-> FALSE, next |-> 0]
    /\ UNCHANGED <<WORKER_POOL, WORKER_QUEUE, promise, taskWorker, listener, microtasks,
                   response>>
    /\ UNCHANGED <<bufVars, histVars, gpuVars, pixel, genVars, paramVars, paramHist,
                   canvasVars, driverVars>>

\* the message event of a response on the main thread, with no listener added
DispatchUnheard(w) ==
    /\ response[w] # "none"
    /\ listener[w] = 0
    /\ microtasks = <<>>
    /\ response' = [response EXCEPT ![w] = "none"]
    /\ poolOp' = [op |-> "dispatch", task |-> 0, worker |-> w, error |-> FALSE, next |-> 0]
    /\ UNCHANGED <<WORKER_POOL, WORKER_QUEUE, promise, taskWorker, listener, microtasks,
                   request, requestAction, posted>>
    /\ UNCHANGED <<bufVars, histVars, gpuVars, pixel, genVars, paramVars, paramHist,
                   canvasVars, driverVars>>

NextWorker ==
    \/ \E w \in Workers, action \in RequestActions : PostMessage(w, action)
    \/ \E w \in Workers, outcome \in {"payload", "error"} : WorkerOnMessage(w, outcome)
    \/ \E w \in Workers : DispatchUnheard(w)

SpecWorker == InitRenderer /\ [][NextWorker]_vars

----------------------------------------------------------------------------
\* Calls of updateParameters and render on one renderer

\* the fields of a partial that carry a value
SuppliedFields(partial) == {f \in Fields : partial[f].tag = "value"}

\* updateParameters(partial), with the history of the call
UpdateParametersCall(partial) ==
    \E r \in {updateParameters(RendererFields, partial)} :
        /\ parameters' = r.parameters
        /\ scaleRange' = r.scaleRange
        /\ currentScaleRange' = r.currentScaleRange
        /\ paramOp' = [op |-> "updateParameters", partial |-> partial,
                       first |-> (parameters = NullParameters),
                       changed |-> {f \in Fields : parameters[f] # r.parameters[f]},
                       before |-> currentScaleRange,
                       rest |-> {}, calls |-> r.calls]
        /\ lastSupplied' = [f \in Fields |->
                              IF f \in SuppliedFields(partial) THEN partial[f].v
                              ELSE lastSupplied[f]]
        /\ UNCHANGED <<currentContrast, currentSensitivity, currentZoom>>

UpdateParameters(partial) ==
    /\ UpdateParametersCall(partial)
    /\ UNCHANGED updates
    /\ UNCHANGED <<bufVars, histVars, gpuVars, pixel, genVars, poolVars, canvasVars,
                   driverVars>>

NextParams == \E partial \in Partials : UpdateParameters(partial)

SpecParams == InitRenderer /\ [][NextParams]_vars

\* updateParameters calls counted in the behaviours that also render
MaxUpdates == 2

\* the partials of the settings sliders that start a smoothing
SmoothPartials ==
    {[EmptyPartial EXCEPT !["contrast"] = Value(FxInt(0))],
     [EmptyPartial EXCEPT !["contrast"] = Value(<<0, FracOne \div 32>>)],
     [EmptyPartial EXCEPT !["contrast"] = Value(<<0, FracOne \div 16>>)],
     [EmptyPartial EXCEPT !["sensitivity"] = Value(FxInt(0))],
     [EmptyPartial EXCEPT !["zoom"] = Value(FxInt(1))],
     [EmptyPartial EXCEPT !["zoom"] = Value(FxInt(7))],
     [EmptyPartial EXCEPT !["minFrequencyHz"] = Value(0)]}

CountedUpdateParameters(partial) ==
    /\ updates < MaxUpdates
    /\ UpdateParametersCall(partial)
    /\ updates' = updates + 1
    /\ UNCHANGED <<bufVars, histVars, gpuVars, pixel, genVars, poolVars, canvasVars,
                   driverVars>>

\* render(): rest records the parameters that equalled their target before it,
\* zoomUniform the value passed for uZoom, moved the parameters it changed and
\* settling the number of render() calls in a row that changed one, this one
\* included
Render ==
    /\ render
    /\ \E moved \in {{c \in Smoothed : Current(c)' # Current(c)}} :
          paramOp' = [op |-> "render", partial |-> EmptyPartial, first |-> FALSE,
                      changed |-> {}, before |-> currentScaleRange,
                      rest |-> {c \in Smoothed : Current(c) = Target(c)}, calls |-> {},
                      zoomUniform |-> zoomUniform(resizeHandlerZoomOverride, currentZoom'),
                      moved |-> moved,
                      settling |-> IF moved = {} THEN 0
                                   ELSE IF paramOp.op = "render" THEN paramOp.settling + 1
                                   ELSE 1]
    /\ UNCHANGED <<parameters, scaleRange, lastSupplied, updates>>
    /\ UNCHANGED <<bufVars, histVars, gpuVars, pixel, genVars, poolVars, canvasVars,
                   driverVars>>

NextSmooth ==
    \/ \E partial \in SmoothPartials : CountedUpdateParameters(partial)
    \/ Render

SpecSmooth == InitRenderer /\ [][NextSmooth]_vars

\* a window resize in progress on one renderer: fastResizeCanvas on every resize
\* event, resizeCanvas when the events stop, between frames that upload and
\* render
NextResize ==
    \/ \E k \in 0..MaxColumns : Enqueue(k)
    \/ UpdateSpectrogram(FALSE)
    \/ \E w \in 1..MaxWidth : ResizeCanvas(w)
    \/ \E w \in 1..MaxWidth : FastResizeCanvas(w)
    \/ Render

SpecResize == InitRenderer /\ [][NextResize]_vars

----------------------------------------------------------------------------
\* One capture source feeding the pool (index.ts)

\* bufferCallback submits one task per channel, in channel order
Channel(t) == (t - 1) % Channels

\* the tasks submitted by the same bufferCallback call as t
SameCall(t) == {u \in Tasks : (u - 1) \div Channels = (t - 1) \div Channels}

InFlight(t) == promise[t] \in {"waiting", "granted", "posted"}

\* if (bufferCallbackPromise !== null) return; for the file driver, the
\* setTimeout that follows `await bufferCallback(...)`
canSubmitMut(p) == p \in {"null", "pending"}
canSubmit(p) == p = "null"

\* what every bufferCallbacks[i] passes to updateParameters
DriverPartial ==
    [EmptyPartial EXCEPT !["windowSize"] = Value(4096), !["sampleRate"] = Value(48000)]

\* the sample buffer passed for task t: channelData[i] of the file driver, a new
\* Float32Array of the microphone driver
SubmittedBuffer(t) ==
    IF source = "file" THEN channelData[Channel(t)] ELSE Channels + t

\* getFreeWorker() for the n tasks from t on
RECURSIVE getFreeWorkers(_, _, _)
getFreeWorkers(p, t, n) ==
    IF n = 0 THEN p ELSE getFreeWorkers(getFreeWorker(p, t), t + 1, n - 1)

\* setupSpectrogramFromMicrophone / setupSpectrogramFromAudioFile
StartCapture(src) ==
    /\ source = "none"
    /\ source' = src
    /\ lastOp' = [op |-> "startCapture", arg |-> 0]
    /\ UNCHANGED <<bufferCallbackPromise, channelData, taskBuffer, enqueued, imageDirty,
                   streamVars>>
    /\ UNCHANGED <<bufVars, total, prev, seen, gpuVars, pixel, genVars, poolVars, paramVars,
                   paramHist, canvasVars>>

\* processChannelBuffers / audioEventCallback calling bufferCallback: every
\* channel's callback runs updateParameters and queueTask up to its await
Capture ==
    /\ source # "none"
    /\ canSubmit(bufferCallbackPromise)
    /\ microtasks = <<>>
    /\ \E t \in Tasks :
          /\ promise[t] = "unsubmitted"
          /\ \A u \in Tasks : u < t => promise[u] # "unsubmitted"
          /\ t + Channels - 1 <= MaxTasks
          /\ SetPoolState(getFreeWorkers(PoolState, t, Channels))
          /\ taskBuffer' = [u \in Tasks |->
                              IF u \in t..(t + Channels - 1) THEN SubmittedBuffer(u)
                              ELSE taskBuffer[u]]
          /\ lastOp' = [op |-> "bufferCallback", arg |-> t]
          /\ poolOp' = [op |-> "queueTask", task |-> t, worker |-> 0, error |-> FALSE,
                        next |-> 0]
    /\ UpdateParametersCall(DriverPartial)
    /\ bufferCallbackPromise' = "pending"
    /\ UNCHANGED <<source, channelData, enqueued, imageDirty, updates, streamVars>>
    /\ UNCHANGED <<listener, request, requestAction, response, posted>>
    /\ UNCHANGED <<bufVars, total, prev, seen, gpuVars, pixel, genVars, canvasVars>>

\* messageHandler of the task on worker w and, when it resolves, the rest of
\* bufferCallbacks[i]: enqueue (on the buffer of channel 0, the one modelled),
\* imageDirty = true; then the continuation of Promise.all in the driver
BufferCallbackResult(w) ==
    /\ messageHandler(w)
    /\ LET t == listener[w]
           ok == response[w] # "error"
           allDone == ok /\ \A u \in SameCall(t) \ {t} : promise[u] = "resolved"
       IN  /\ IF ok /\ Channel(t) = 0
              THEN /\ enqueue(ColumnsArray(total + 1, 1, height))
                   /\ total' = total + 1
              ELSE UNCHANGED <<bufVars, total>>
           /\ enqueued' = IF ok THEN Append(enqueued, t) ELSE enqueued
           /\ imageDirty' = (imageDirty \/ (ok /\ Channel(t) = 0))
           /\ bufferCallbackPromise' =
                 IF ~ok THEN "rejected"
                 ELSE IF allDone /\ bufferCallbackPromise = "pending" THEN "null"
                 ELSE bufferCallbackPromise
           /\ channelData' =
                 IF allDone /\ source = "file"
                 THEN [c \in 0..(Channels - 1) |->
                         taskBuffer[CHOOSE u \in SameCall(t) : Channel(u) = c]]
                 ELSE channelData
           /\ lastOp' = [op |-> "bufferCallbackResult", arg |-> t]
    /\ prev' = Snapshot
    /\ UNCHANGED <<source, taskBuffer, seen, streamVars>>
    /\ UNCHANGED <<gpuVars, pixel, genVars, paramVars, paramHist, canvasVars>>

\* the requestAnimationFrame callback is a task of the event loop of its own;
\* it reads nothing of the pool
frameReadyMut(mt, pr) ==
    mt = <<>> /\ \A t \in Tasks : pr[t] \notin {"waiting", "granted", "posted"}
frameReady(mt, pr) == mt = <<>>

\* the buffer holds columns enqueued after the renderer last looked at it: every
\* enqueue of the callback adds fewer columns than the width, so it moves
\* length or start
newDataEnqueued ==
    \/ lastSpectrogramStart = null
    \/ start # lastSpectrogramStart
    \/ length # lastSpectrogramLength

\* render of index.ts: updateSpectrogram if imageDirty, renderer.render(),
\* requestAnimationFrame(render); arg records the tasks pending at the frame,
\* updated whether the frame called updateSpectrogram, fresh whether columns had
\* been enqueued since the previous updateSpectrogram call
RenderFrame ==
    /\ frameReady(microtasks, promise)
    /\ IF imageDirty
       THEN /\ updateSpectrogram(FALSE)
            /\ invalidated' = FALSE
       ELSE UNCHANGED <<gpuVars, invalidated>>
    /\ render
    /\ paramOp' = [op |-> "render", partial |-> EmptyPartial, first |-> FALSE,
                   changed |-> {}, before |-> currentScaleRange,
                   rest |-> {c \in Smoothed : Current(c) = Target(c)}, calls |-> {},
                   zoomUniform |-> zoomUniform(resizeHandlerZoomOverride, currentZoom')]
    /\ lastOp' = [op |-> "frame", arg |-> Cardinality({t \in Tasks : InFlight(t)}),
                  updated |-> imageDirty, fresh |-> newDataEnqueued]
    /\ UNCHANGED <<parameters, scaleRange, lastSupplied, updates>>
    /\ UNCHANGED <<resizeHandlerLastRealWidth, resizeHandlerZoomOverride>>
    /\ UNCHANGED <<bufVars, total, prev, seen, pixel, genVars, poolVars, driverVars>>

NextDriver ==
    \/ \E src \in {"microphone", "file"} : StartCapture(src)
    \/ Capture
    \/ \E t \in Tasks : ThenCallback(t)
    \/ \E w \in Workers, outcome \in {"payload", "error"} : WorkerOnMessage(w, outcome)
    \/ \E w \in Workers : BufferCallbackResult(w)
    \/ RenderFrame

SpecDriver == InitRenderer /\ [][NextDriver]_vars

\* the microphone driver by itself: its submissions as it hands them to
\* bufferCallback, and the promise of each resolving at any later time

\* audioprocess events delivered at most
MaxChunks == 14

SPECTROGRAM_WINDOW_SIZE == 4096
SPECTROGRAM_WINDOW_OVERLAP == 1024

\* channelBuffers[i].splice(0, length - WINDOW_SIZE / WINDOW_OVERLAP + 1): the
\* number of chunks deleted from the front
spliceCountMut(n) == n - (SPECTROGRAM_WINDOW_SIZE \div SPECTROGRAM_WINDOW_OVERLAP)
spliceCount(n) == n - (SPECTROGRAM_WINDOW_SIZE \div SPECTROGRAM_WINDOW_OVERLAP) + 1

\* the channels the loop of processChannelBuffers merges before its break
mergedChannels(buffers) ==
    {c \in 0..(Channels - 1) :
        \A b \in 0..c :
            Len(buffers[b]) >= SPECTROGRAM_WINDOW_SIZE \div SPECTROGRAM_WINDOW_OVERLAP}

\* the options bufferCallbacks[i] passes on to generateSpectrogram for a merged
\* buffer of n chunks
micRequest(n, first) ==
    [samplesStart |-> 0, samplesLength |-> n * SPECTROGRAM_WINDOW_OVERLAP,
     isStart |-> first, isEnd |-> FALSE,
     windowSize |-> SPECTROGRAM_WINDOW_SIZE, windowStepSize |-> SPECTROGRAM_WINDOW_OVERLAP,
     scale |-> "linear", scaleSize |-> undefined]

\* the audioprocess listener: a chunk is pushed for every channel, then
\* processChannelBuffers merges, trims and submits unless a submission is
\* pending or fewer than a window's worth of chunks is held
AudioProcess ==
    /\ source = "microphone"
    /\ chunksReceived < MaxChunks
    /\ chunksReceived' = chunksReceived + 1
    /\ \E pushed \in {[c \in 0..(Channels - 1) |->
                          Append(channelBuffers[c], chunksReceived + 1)]} :
          \E merged \in {IF bufferCallbackPromise # "null" THEN {}
                          ELSE mergedChannels(pushed)} :
             /\ channelBuffers' =
                   [c \in 0..(Channels - 1) |->
                      IF c \in merged
                      THEN SubSeq(pushed[c], spliceCount(Len(pushed[c])) + 1,
                                  Len(pushed[c]))
                      ELSE pushed[c]]
             /\ IF merged # {}
                THEN \E r \in {generateSpectrogram(micRequest(Len(pushed[0]), isStart))} :
                        /\ bufferCallbackPromise' = "pending"
                        /\ isStart' = FALSE
                        /\ columnsRequested' = columnsRequested + r.windowCount
                        /\ micOp' = [op |-> "submit", buffer |-> pushed[0],
                                      isStart |-> isStart, columns |-> r.windowCount,
                                      startIdx |-> r.startIdx,
                                      before |-> columnsRequested,
                                      channels |-> merged]
                ELSE /\ micOp' = [op |-> "push"]
                     /\ UNCHANGED <<bufferCallbackPromise, isStart, columnsRequested>>
    /\ UNCHANGED <<source, channelData, taskBuffer, enqueued, imageDirty, inFlightAtClear,
                   fileVars>>
    /\ UNCHANGED <<bufVars, histVars, gpuVars, pixel, genVars, poolVars, paramVars,
                   paramHist, canvasVars>>

\* bufferCallbackPromise.then(() => { bufferCallbackPromise = null; })
PromiseThen ==
    /\ source = "microphone"
    /\ bufferCallbackPromise = "pending"
    /\ bufferCallbackPromise' = "null"
    /\ micOp' = [op |-> "then"]
    /\ UNCHANGED <<source, channelData, taskBuffer, enqueued, imageDirty, inFlightAtClear,
                   channelBuffers, isStart, chunksReceived, columnsRequested, fileVars>>
    /\ UNCHANGED <<bufVars, histVars, gpuVars, pixel, genVars, poolVars, paramVars,
                   paramHist, canvasVars>>

NextMic ==
    \/ StartCapture("microphone")
    \/ AudioProcess
    \/ PromiseThen

SpecMic == InitRenderer /\ [][NextMic]_vars

\* the file driver by itself: audioEventCallback up to its await, and the rest
\* of it once the promise of bufferCallback has resolved

\* audioBuffer.length, the samples of every channel array
AudioLength == 10000

\* the timer fires every half overlap (512 samples of playback); a late one and
\* the await let more of the audio go by
Elapsed == {0, 1, 512, 1024, 3000, 6000}

\* Math.ceil((duration * sampleRate - nextSample) / WINDOW_SIZE) * WINDOW_SIZE
totalSamplesOf(position, next) ==
    Ceil(position - next, SPECTROGRAM_WINDOW_SIZE) * SPECTROGRAM_WINDOW_SIZE

\* nextSample + totalSamples - WINDOW_SIZE + WINDOW_OVERLAP
nextSampleAfterMut(next, totalSamples) == next + totalSamples
nextSampleAfter(next, totalSamples) ==
    next + totalSamples - SPECTROGRAM_WINDOW_SIZE + SPECTROGRAM_WINDOW_OVERLAP

\* the options bufferCallbacks[i] passes on to generateSpectrogram
fileRequest(next, totalSamples) ==
    [samplesStart |-> next, samplesLength |-> totalSamples,
     isStart |-> (next = 0), isEnd |-> FALSE,
     windowSize |-> SPECTROGRAM_WINDOW_SIZE, windowStepSize |-> SPECTROGRAM_WINDOW_OVERLAP,
     scale |-> "linear", scaleSize |-> undefined]

\* if (!isStopping && duration / audioBuffer.duration < 1.0) setTimeout(...)
\* else { source.disconnect(...); audioEndCallback(); }
playbackGoesOn(position) == ~isStopping /\ position < AudioLength

\* audioEventCallback, started by setup or by its timer, up to the await of
\* bufferCallback when it submits and to its end when it does not
AudioEventCallback ==
    /\ source = "file"
    /\ bufferCallbackPromise = "null"
    /\ ~audioEnded
    /\ \E e \in Elapsed :
          \E position \in {playhead + e} :
             \E totalSamples \in {totalSamplesOf(position, nextSample)} :
                /\ playhead' = position
                /\ IF totalSamples > 0
                   THEN \E r \in {generateSpectrogram(fileRequest(nextSample, totalSamples))} :
                           /\ nextSample' = nextSampleAfter(nextSample, totalSamples)
                           /\ bufferCallbackPromise' = "pending"
                           /\ lastWindowStart' =
                                 r.startIdx + (r.windowCount - 1) * SPECTROGRAM_WINDOW_OVERLAP
                           /\ fileOp' = [op |-> "submit", start |-> nextSample,
                                          length |-> totalSamples,
                                          isStart |-> (nextSample = 0),
                                          firstWindow |-> r.startIdx,
                                          windows |-> r.windowCount,
                                          previous |-> lastWindowStart]
                           /\ UNCHANGED audioEnded
                   ELSE /\ audioEnded' = ~playbackGoesOn(position)
                        /\ fileOp' = [op |-> "idle"]
                        /\ UNCHANGED <<nextSample, bufferCallbackPromise, lastWindowStart>>
    /\ UNCHANGED <<source, channelData, taskBuffer, enqueued, imageDirty, inFlightAtClear,
                   micVars, isStopping>>
    /\ UNCHANGED <<bufVars, histVars, gpuVars, pixel, genVars, poolVars, paramVars,
                   paramHist, canvasVars>>

\* channelData = await bufferCallback(...) resolving, and the rest of
\* audioEventCallback, which still holds the duration it read before the await
AwaitBufferCallback ==
    /\ source = "file"
    /\ bufferCallbackPromise = "pending"
    /\ bufferCallbackPromise' = "null"
    /\ audioEnded' = ~playbackGoesOn(playhead)
    /\ fileOp' = [op |-> "resumed"]
    /\ UNCHANGED <<source, channelData, taskBuffer, enqueued, imageDirty, inFlightAtClear,
                   micVars, nextSample, isStopping, playhead, lastWindowStart>>
    /\ UNCHANGED <<bufVars, histVars, gpuVars, pixel, genVars, poolVars, paramVars,
                   paramHist, canvasVars>>

\* the function setupSpectrogramFromAudioFile returns, called by the stop button
StopFile ==
    /\ source = "file"
    /\ ~isStopping
    /\ isStopping' = TRUE
    /\ fileOp' = [op |-> "stop"]
    /\ UNCHANGED <<source, bufferCallbackPromise, channelData, taskBuffer, enqueued,
                   imageDirty, inFlightAtClear, micVars, nextSample, playhead, audioEnded,
                   lastWindowStart>>
    /\ UNCHANGED <<bufVars, histVars, gpuVars, pixel, genVars, poolVars, paramVars,
                   paramHist, canvasVars>>

NextFile ==
    \/ StartCapture("file")
    \/ AudioEventCallback
    \/ AwaitBufferCallback
    \/ StopFile

SpecFile == InitRenderer /\ [][NextFile]_vars

\* the same with the clear button of the controls pressed at any time
NextClear ==
    \/ NextDriver
    \/ ClearCallback

SpecClear == InitRenderer /\ [][NextClear]_vars

----------------------------------------------------------------------------
\* the c-th column ever produced, as Read returns it
Column(c, h) == [r \in 1..h |-> Cell(c, r - 1, h)]

\* C1: after any sequence of enqueue calls, the positions (start + i) mod width,
\* i = 0..length-1, hold exactly the most recent min(total, width) columns ever
\* enqueued, oldest first, without gaps or duplicates.
C1_EnqueueKeepsMostRecent ==
    /\ length = Min(total, width)
    /\ Read(start, length, width, height, data)
         = [i \in 1..Min(total, width) |-> Column(total - Min(total, width) + i, height)]

C1_Witness ==
    /\ lastOp.op = "enqueue"
    /\ lastOp.arg > width
    /\ prev.length > 0
    /\ start > 0

\* C2: an enqueue of k columns with length + k > width leaves length = width and
\* start = (oldStart + oldLength + k - width) mod width; enqueuing 5 columns into
\* an empty buffer of width 3 leaves start = 2, length = 3 and the columns 2, 3, 4
\* (counted from 0) of the submission.
C2_OverflowAdvancesStart ==
    lastOp.op = "enqueue" =>
        /\ (prev.length + lastOp.arg > prev.width) =>
              /\ length = width
              /\ start = (prev.start + prev.length + lastOp.arg - width) % width
        /\ (prev.length = 0 /\ prev.width = 3 /\ lastOp.arg = 5) =>
              /\ start = 2
              /\ length = 3
              /\ Read(start, length, width, height, data)
                   = [i \in 1..3 |-> Column((total - 5) + 2 + i, height)]

C2_Witness ==
    /\ lastOp.op = "enqueue"
    /\ lastOp.arg = 5
    /\ prev.length = 0
    /\ prev.width = 3
    /\ start = 2

\* the last n elements of the sequence q
LastN(q, n) == [i \in 1..n |-> q[Len(q) - n + i]]

PrevRead == Read(prev.start, prev.length, prev.width, height, prev.data)

ResizeKeepsNewest ==
    /\ start = 0
    /\ length = Min(prev.length, lastOp.arg)
    /\ Read(start, length, width, height, data) = LastN(PrevRead, Min(prev.length, lastOp.arg))

\* C3 as stated: resizeWidth(newWidth), for newWidth smaller than, larger than or
\* equal to the current width, leaves start = 0, length = min(oldLength, newWidth)
\* and positions 0..length-1 holding the newest min(oldLength, newWidth) columns.
C3_Original == lastOp.op = "resizeWidth" => ResizeKeepsNewest

\* C3 amended: resizeWidth(newWidth) with newWidth different from the current
\* width leaves start = 0, length = min(oldLength, newWidth) and positions
\* 0..length-1 holding the newest min(oldLength, newWidth) columns in order;
\* with newWidth equal to the current width it leaves start, length, width and
\* data as they were.
C3_ResizeKeepsNewest ==
    lastOp.op = "resizeWidth" =>
        /\ width = lastOp.arg
        /\ lastOp.arg # prev.width => ResizeKeepsNewest
        /\ lastOp.arg = prev.width => Snapshot = prev

C3_Witness ==
    /\ lastOp.op = "resizeWidth"
    /\ prev.start > 0
    /\ lastOp.arg < prev.width
    /\ length >= 2

\* C4: in every state reachable by enqueue, resizeWidth and clear,
\* 0 <= start < width and 0 <= length <= width.
C4_IndicesInRange ==
    /\ 0 <= start /\ start < width
    /\ 0 <= length /\ length <= width

C4_Witness ==
    /\ seen = {"enqueue", "resizeWidth", "clear"}
    /\ lastOp.op = "enqueue"
    /\ prev.length + lastOp.arg > 2 * width
    /\ start > 0

\* C5: after every non-forced updateSpectrogram call that follows enqueue calls of
\* any sizes, the texture equals, texel for texel, what a full upload of the
\* buffer's data at that moment would produce.
C5_PartialEqualsFull ==
    lastOp.op = "updateSpectrogram" => texture = texImage2D(height, width, data)

\* the rows [start, start + length) mod width recorded by the last updateSpectrogram
ValidRows ==
    IF lastSpectrogramStart = null THEN {}
    ELSE {mod(lastSpectrogramStart + i, ArrayLen(texture) \div height) :
            i \in 0..(lastSpectrogramLength - 1)}

\* C6: for every screen x in [0, 1] and zoom > 0, a pixel either has its intensity
\* forced to 0 or reads only rows of the texture inside the valid range
\* [start, start + length) mod width recorded by the last updateSpectrogram.
C6_OnlyValidColumnsShown ==
    lastOp.op = "main" => (pixel.forced \/ pixel.rows \subseteq ValidRows)

C6_Witness ==
    /\ lastOp.op = "main"
    /\ ~pixel.forced
    /\ lastSpectrogramLength > 0
    /\ lastSpectrogramLength < width
    /\ (lastSpectrogramLength - 1) \in pixel.rows
    /\ "partialUpload" \in seen

Called == genOut.status # "none"

Divisible == genIn.windowStepSize # 0 /\ genIn.windowSize % genIn.windowStepSize = 0

\* ceil(samplesLength / step) - floor(windowSize / step) + 1
FormulaCount ==
    Ceil(genIn.samplesLength, genIn.windowStepSize)
      - (genIn.windowSize \div genIn.windowStepSize) + 1

ReturnsFormulaCount ==
    /\ genOut.status = "returned"
    /\ genOut.windowCount = FormulaCount
    /\ genOut.resultLength = genIn.scaleSize * genOut.windowCount

\* C7 as stated: with windowSize % windowStepSize = 0 and no boundary flags the
\* call returns windowCount = ceil(samplesLength / step) - floor(windowSize / step)
\* + 1 and scaleSize * windowCount values; otherwise it throws.  Stated for the
\* calls the types allow: a scale of 'linear' or 'mel' and a given scaleSize.
C7_Original ==
    (Called /\ genIn.scale \in Scales /\ genIn.scaleSize # undefined) =>
        /\ (Divisible /\ ~genIn.isStart /\ ~genIn.isEnd) => ReturnsFormulaCount
        /\ ~Divisible => genOut.status = "thrown"

\* C7 amended: for a scale of 'linear' or 'mel' and a whole scaleSize >= 0, with
\* windowSize % windowStepSize = 0 and no boundary flags: when the formula's count
\* times scaleSize is not negative, the call returns windowCount equal to the
\* formula and exactly scaleSize * windowCount values (length 4096, window 4096,
\* step 1024 gives 1); when it is negative (a range shorter than
\* windowSize - 2 * windowStepSize + 1 samples), the call throws.  With
\* windowSize % windowStepSize # 0 the call throws, whatever the other options.
C7_WindowCount ==
    Called =>
        /\ (genIn.scale \in Scales /\ genIn.scaleSize # undefined
              /\ Divisible /\ ~genIn.isStart /\ ~genIn.isEnd) =>
              /\ FormulaCount * genIn.scaleSize >= 0 => ReturnsFormulaCount
              /\ FormulaCount * genIn.scaleSize < 0 => genOut.status = "thrown"
              /\ (genIn.samplesLength = 4096 /\ genIn.windowSize = 4096
                    /\ genIn.windowStepSize = 1024) => genOut.windowCount = 1
        /\ ~Divisible => genOut.status = "thrown"

C7_Witness ==
    /\ genOut.status = "returned"
    /\ genIn.samplesLength = 4096
    /\ genIn.windowSize = 4096
    /\ genIn.windowStepSize = 1024
    /\ genIn.scaleSize = 2048
    /\ genIn.scale = "linear"
    /\ ~genIn.isStart /\ ~genIn.isEnd
    /\ genOut.windowCount = 1
    /\ genOut.resultLength = 2048

\* C8: every generateSpectrogram call whose scale is neither 'linear' nor 'mel'
\* throws, whatever samplesLength, scaleSize and the other options are; it never
\* returns a result.
C8_UnknownScaleThrows ==
    (Called /\ genIn.scale \notin Scales) => genOut.status = "thrown"

\* C9: provided every worker answers each request with one message, every task
\* submitted through queueTask eventually resolves or rejects, also with more
\* submissions than workers and for any completion order.
C9_EveryTaskSettles ==
    \A t \in Tasks : (promise[t] # "unsubmitted") ~> Settled(t)

\* a later task has settled while an earlier one is still with its worker, and
\* a task that had to wait has been posted to the released worker
C9_Witness ==
    \E t1, t2, t3 \in Tasks :
        /\ t1 < t2 /\ t2 < t3
        /\ promise[t1] = "posted"
        /\ Settled(t2)
        /\ promise[t3] = "posted" /\ taskWorker[t3] = taskWorker[t2]
        /\ t3 > PoolSize

\* right after the messageHandler of a task answered with an error
AfterErrorHandler ==
    (poolOp.op = "messageHandler" /\ poolOp.error) =>
        /\ promise[poolOp.task] = "rejected"
        /\ listener[poolOp.worker] = 0
        /\ poolOp.next = 0 => ~WORKER_POOL[poolOp.worker]
        /\ poolOp.next # 0 =>
              /\ WORKER_POOL[poolOp.worker]
              /\ promise[poolOp.next] = "granted"
              /\ taskWorker[poolOp.next] = poolOp.worker
              /\ \A i \in 1..Len(WORKER_QUEUE) : WORKER_QUEUE[i] # poolOp.next

\* a rejected task is never queued, posted or listening again
NoRetry ==
    \A t \in Tasks : promise[t] = "rejected" =>
        /\ promise'[t] = "rejected"
        /\ \A w \in Workers : request'[w] # t /\ listener'[w] # t
        /\ \A i \in 1..Len(WORKER_QUEUE') : WORKER_QUEUE'[i] # t

\* C10: when a worker answers a task with an error, the task's promise rejects,
\* the worker is released and the head of the wait queue (if any) is given that
\* worker and posted to it; the failed task is not submitted again, and every
\* other queued or in-flight task still eventually settles.
C10_ErrorRejectsAndDrains ==
    /\ []AfterErrorHandler
    /\ [][NoRetry]_vars
    /\ \A t \in Tasks :
          (promise[t] = "granted"
             /\ \E e \in Tasks : promise[e] = "rejected" /\ taskWorker[e] = taskWorker[t])
            ~> (taskWorker[t] # 0 /\ request[taskWorker[t]] = t)
    /\ \A t \in Tasks :
          (promise[t] \in {"waiting", "granted", "posted"}
             /\ \E e \in Tasks : promise[e] = "rejected")
            ~> Settled(t)

C10_Witness ==
    /\ poolOp.op = "messageHandler"
    /\ poolOp.error
    /\ poolOp.next # 0
    /\ promise[poolOp.task] = "rejected"
    /\ promise[poolOp.next] = "granted"
    /\ Len(WORKER_QUEUE) > 0

\* position of task t in the dispatch order, 0 when its request is not posted
PostedAt(t) ==
    IF \E i \in 1..Len(posted) : posted[i] = t
    THEN CHOOSE i \in 1..Len(posted) : posted[i] = t
    ELSE 0

\* C11: requests are posted to workers in the order they were submitted: the
\* requests waiting in WORKER_QUEUE stand in submission order, every posted
\* request was submitted before the ones posted after it, and while a request
\* waits no request submitted after it has been given a worker or posted.
C11_WaitersDispatchedFifo ==
    /\ \A i, j \in 1..Len(WORKER_QUEUE) : i < j => WORKER_QUEUE[i] < WORKER_QUEUE[j]
    /\ \A i, j \in 1..Len(posted) : i < j => posted[i] < posted[j]
    /\ \A t, u \in Tasks :
          (promise[t] = "waiting" /\ t < u) => promise[u] \in {"unsubmitted", "waiting"}

\* releaseWorker has just given a worker to the request that waited longest
\* while a later request goes on waiting, after a later completion overtook an
\* earlier one
C11_Witness ==
    /\ poolOp.op = "messageHandler"
    /\ poolOp.next # 0
    /\ promise[poolOp.next] = "granted"
    /\ Len(WORKER_QUEUE) > 0
    /\ poolOp.next < Head(WORKER_QUEUE)
    /\ \E v \in Tasks : v < poolOp.task /\ promise[v] = "posted"

\* C12 as stated: request N > poolSize is posted only once request N - poolSize
\* has settled.
C12_Original ==
    \A n \in Tasks :
        (n > PoolSize /\ PostedAt(n) # 0) => Settled(n - PoolSize)

\* C12 amended: request N > poolSize is posted only once at least N - poolSize
\* of the requests submitted before it have settled, whichever they are; request
\* N - poolSize itself may still be in flight.
C12_DispatchAfterCompletions ==
    \A n \in Tasks :
        (n > PoolSize /\ PostedAt(n) # 0) =>
            Cardinality({u \in Tasks : u < n /\ Settled(u)}) >= n - PoolSize

\* request N is posted while request N - poolSize is still with its worker
C12_Witness ==
    \E n \in Tasks :
        /\ n > PoolSize
        /\ PostedAt(n) # 0
        /\ promise[n - PoolSize] = "posted"

\* C16: a render() call leaves every smoothed parameter (both scale-range
\* components, contrast, sensitivity, zoom) that equalled its target before the
\* call equal to that target, so any number of render() calls without an
\* updateParameters in between leave it unchanged.
C16_RestIsStable ==
    paramOp.op = "render" => \A c \in paramOp.rest : Current(c) = Target(c)

\* contrast has been smoothed to a new target and stays there in a render() that
\* still moves the zoom
C16_Witness ==
    /\ paramOp.op = "render"
    /\ "contrast" \in paramOp.rest
    /\ parameters.contrast.v = FxInt(0)
    /\ "zoom" \notin paramOp.rest
    /\ Current("zoom") # Target("zoom")

\* C17: after any sequence of updateParameters calls every field of the snapshot
\* is the value of the most recent call that supplied it (0 included; null and
\* undefined are absent), or its default if no call supplied it, and a call
\* changes no field it does not supply.
C17_SnapshotIsLastSupplied ==
    /\ \A f \in Fields : parameters[f] = Value(lastSupplied[f])
    /\ paramOp.changed \subseteq SuppliedFields(paramOp.partial)

\* a call supplied 0 for the contrast after another field was set, and a later
\* call passed null
C17_Witness ==
    /\ parameters.contrast.v = FxInt(0)
    /\ parameters.minFrequencyHz.v = 0
    /\ parameters.sampleRate.v = 44100
    /\ parameters.scale.v = "linear"
    /\ \E f \in Fields : paramOp.partial[f] = Null

\* C18 as stated: after the first call, and after a call that changes scale,
\* minimum frequency, maximum frequency, sampleRate or windowSize, the smoothed
\* scale range equals the target scale range.
C18_Original ==
    (paramOp.op = "updateParameters"
       /\ (paramOp.first
             \/ paramOp.changed \cap {"scale", "minFrequencyHz", "maxFrequencyHz",
                                      "sampleRate", "windowSize"} # {}))
      => currentScaleRange = scaleRange

\* C18 amended: after the first call, and after a call that changes scale,
\* sampleRate or windowSize, the smoothed scale range equals the newly computed
\* target; a later call that changes none of these three (a change of the
\* minimum or maximum frequency included) leaves the smoothed scale range as it
\* was.
C18_SnapOnScaleTextureChange ==
    paramOp.op = "updateParameters" =>
        IF paramOp.first \/ paramOp.changed \cap {"scale", "sampleRate", "windowSize"} # {}
        THEN currentScaleRange = scaleRange
        ELSE currentScaleRange = paramOp.before

\* the sample rate changed while the smoothed range was away from its target
C18_Witness ==
    /\ paramOp.op = "updateParameters"
    /\ paramOp.changed = {"sampleRate"}
    /\ paramOp.before # currentScaleRange
    /\ currentScaleRange = scaleRange
    /\ parameters.minFrequencyHz.v = 0

\* the spectrogram texture and the bookkeeping a full upload of the buffer leaves
FullyUploaded ==
    /\ texture = texImage2D(height, width, data)
    /\ lastSpectrogramStart = start
    /\ lastSpectrogramLength = length

\* C19: the first updateSpectrogram call, every call with forceFull = true and
\* the first call after any resizeCanvas upload the whole buffer; resizeCanvas
\* leaves the zoom override at 1.
C19_FullUploadWhenInvalidated ==
    /\ (lastOp.op = "updateSpectrogram" /\ (lastOp.arg = 1 \/ lastOp.first)) => FullyUploaded
    /\ lastOp.op = "resizeCanvas" => resizeHandlerZoomOverride = <<1, 1>>

\* a non-forced updateSpectrogram, the first after a resizeCanvas that followed
\* partial invalidated and a fastResizeCanvas, with the buffer wrapped
C19_Witness ==
    /\ lastOp.op = "updateSpectrogram"
    /\ lastOp.arg = 0
    /\ lastOp.first
    /\ {"resizeCanvas", "fastResizeCanvas", "partialUpload"} \subseteq seen
    /\ start > 0
    /\ resizeHandlerLastRealWidth # width

\* C20: clear() leaves start = 0, length = 0, width and height as they were and
\* every stored value zero; clearCallback follows it with a forced full upload,
\* so the texture equals the cleared buffer afterwards.
C20_ClearEmptiesBufferAndImage ==
    lastOp.op = "clearCallback" =>
        /\ start = 0
        /\ length = 0
        /\ width = prev.width
        /\ height = prev.height
        /\ data = ZeroArray(width * height * elementSize)
        /\ FullyUploaded

\* clearCallback on a wrapped buffer whose columns had been uploaded
C20_Witness ==
    /\ lastOp.op = "clearCallback"
    /\ prev.start > 0
    /\ prev.length = prev.width
    /\ "partialUpload" \in seen
    /\ start = 0 /\ length = 0

\* the tasks of channel c whose result was enqueued, in the order of the enqueues
EnqueuedOf(c) == SelectSeq(enqueued, LAMBDA t : Channel(t) = c)

\* C13: while one capture source runs, every channel has at most one request in
\* flight, and the results of a channel are enqueued in the order the requests
\* were submitted, whatever the completion order across channels.
C13_PerChannelOrder ==
    \A c \in 0..(Channels - 1) :
        /\ Cardinality({t \in Tasks : Channel(t) = c /\ InFlight(t)}) <= 1
        /\ \A i, j \in 1..Len(EnqueuedOf(c)) :
              i < j => EnqueuedOf(c)[i] < EnqueuedOf(c)[j]

\* two calls of bufferCallback were enqueued, the first with its channels out
\* of order
C13_Witness ==
    /\ Len(enqueued) >= 2 * Channels - 1
    /\ enqueued[1] > enqueued[2]
    /\ Len(EnqueuedOf(1)) = 2

\* C14: no sample buffer is passed to the pool while a task that was given it
\* is still in flight: the buffers of the tasks in flight are pairwise
\* different, the file driver's channelData being replaced by the echoed inputs
\* only when its await returns and the microphone driver allocating anew.
C14_NoBufferReuseInFlight ==
    \A t, u \in Tasks :
        (t # u /\ InFlight(t) /\ InFlight(u)) => taskBuffer[t] # taskBuffer[u]

\* the file driver submitted the echoed buffer of channel 0 a second time, after
\* the first task had resolved
C14_Witness ==
    /\ source = "file"
    /\ \E t, u \in Tasks :
          /\ t < u
          /\ taskBuffer[t] = taskBuffer[u]
          /\ promise[t] = "resolved"
          /\ InFlight(u)

\* C15: in every state where no then-callback is left in the current turn of
\* the event loop, the frame callback can run, whatever requests are waiting for
\* a worker, granted one or in flight.
C15_FrameNeverWaits ==
    microtasks = <<>> => ENABLED RenderFrame

\* a frame uploaded new columns and rendered while the requests of every
\* channel were pending
C15_Witness ==
    /\ lastOp.op = "frame"
    /\ lastOp.arg = Channels
    /\ \E t \in Tasks : promise[t] = "posted"
    /\ imageDirty
    /\ ~invalidated

\* C21: while the buffer holds no column (never enqueued, or cleared by
\* clearCallback), before and after any updateSpectrogram call, the length
\* uniform is not positive, the texture left by updateSpectrogram is the zeroed
\* buffer, and every pixel drawn, for every x in [0, 1] and zoom > 0, has its
\* intensity forced to 0.
C21_BlankWhenEmpty ==
    length = 0 =>
        /\ spectrogramLength[1] <= 0
        /\ lastOp.op = "updateSpectrogram" => texture = texImage2D(height, width, data)
        /\ lastOp.op = "main" => pixel.forced

\* a pixel drawn after clearCallback emptied a buffer whose columns had been
\* uploaded piecewise and a non-forced updateSpectrogram followed
C21_Witness ==
    /\ lastOp.op = "main"
    /\ length = 0
    /\ total > 0
    /\ {"clear", "partialUpload"} \subseteq seen
    /\ lastSpectrogramLength = 0
    /\ spectrogramLength[1] < 0
    /\ pixel.forced

\* the columns C22 names for a buffer at newStart, newLength of width w and a
\* renderer that last saw oldStart, oldLength
NamedColumns(oldStart, oldLength, newStart, newLength, w) ==
    IF newStart # oldStart
    THEN IF newStart >= oldStart
         THEN oldStart..(newStart - 1)
         ELSE (0..(newStart - 1)) \cup (oldStart..(w - 1))
    ELSE IF newLength > oldLength
    THEN oldLength..(newLength - 1)
    ELSE {}

\* a non-forced updateSpectrogram call that is not the first
PartialUpdateStep ==
    /\ lastOp'.op = "updateSpectrogram"
    /\ lastOp'.arg = 0
    /\ lastSpectrogramStart # null

\* C22: a non-forced, non-first updateSpectrogram call replaces exactly the
\* texture rows of the columns [oldStart, newStart) when start moved forward,
\* [0, newStart) and [oldStart, width) when it moved backward, [oldLength,
\* newLength) when start stayed and length grew, none when neither changed, by
\* the buffer's data, and then records the buffer's start and length.
C22_PartialUploadRanges ==
    [][PartialUpdateStep =>
          /\ (start # lastSpectrogramStart \/ length >= lastSpectrogramLength) =>
                texture' = [p \in DOMAIN texture |->
                              IF (p \div height) \in NamedColumns(lastSpectrogramStart,
                                                                 lastSpectrogramLength,
                                                                 start, length, width)
                              THEN data[p] ELSE texture[p]]
          /\ lastSpectrogramStart' = start
          /\ lastSpectrogramLength' = length]_vars

\* a non-forced, non-first call found the start moved backward and uploaded two
\* ranges, neither of them empty
C22_Witness ==
    /\ lastOp.op = "updateSpectrogram"
    /\ lastOp.arg = 0
    /\ lastOp.was # null
    /\ start < lastOp.was
    /\ start > 0
    /\ lastSpectrogramStart = start

\* C23: a non-forced, non-first updateSpectrogram call that follows only enqueue
\* calls since the previous updateSpectrogram uploads at most as many columns
\* as those calls enqueued, and none when they enqueued none or when there was
\* no call in between.
C23_UploadBoundedByEnqueued ==
    [][PartialUpdateStep =>
          /\ lastOp.op = "enqueue" => uploadedColumns(FALSE) <= lastOp.since
          /\ lastOp.op = "updateSpectrogram" => uploadedColumns(FALSE) = 0]_vars

\* a call that uploaded fewer columns than a full upload after the enqueue calls
\* had wrapped the buffer, leaving rows it did not upload
C23_Witness ==
    /\ lastOp.op = "updateSpectrogram"
    /\ lastOp.arg = 0
    /\ lastOp.was # null
    /\ lastOp.uploaded > 0
    /\ lastOp.uploaded < width
    /\ start # lastOp.was
    /\ texture # texImage2D(height, width, data)

\* C24: a frame of the render loop calls updateSpectrogram only if columns have
\* been enqueued since the previous updateSpectrogram call, and imageDirty is
\* back to false after a frame.
C24_UpdateOnlyWithNewData ==
    lastOp.op = "frame" =>
        /\ lastOp.updated => lastOp.fresh
        /\ ~imageDirty

\* C25: a call that returns (windowSize % windowStepSize = 0) has
\* floor(windowSize / windowStepSize) - 1 columns more than the count without
\* flags for isStart, as many more for isEnd and twice as many for both; with
\* isStart the first window starts that many steps before samplesStart, without
\* it at samplesStart, so that the columns of isEnd come after the range.
C25_BoundaryFlagsAddColumns ==
    genOut.status = "returned" =>
        LET extra == (genIn.windowSize \div genIn.windowStepSize) - 1
        IN  /\ Divisible
            /\ genOut.windowCount =
                  FormulaCount + (IF genIn.isStart THEN extra ELSE 0)
                               + (IF genIn.isEnd THEN extra ELSE 0)
            /\ genOut.startIdx =
                  genIn.samplesStart
                    - (IF genIn.isStart THEN extra * genIn.windowStepSize ELSE 0)

\* the default sizes (window 4096, step 1024) with both flags: 3 columns added
\* at each end of a range that alone gives 1
C25_Witness ==
    /\ genOut.status = "returned"
    /\ genIn.isStart /\ genIn.isEnd
    /\ genIn.windowSize = 4096
    /\ genIn.windowStepSize = 1024
    /\ genIn.samplesLength = 4096
    /\ genIn.samplesStart = 1
    /\ genOut.windowCount = 7
    /\ genOut.startIdx = 1 - 3072

\* the column computed last by the loop, counted from 0
LastColumn == (genLoop.windowIdx \div genIn.scaleSize) - 1

\* firstStart of C26
FirstStart ==
    IF genIn.isStart
    THEN genIn.samplesStart
           - ((genIn.windowSize \div genIn.windowStepSize) - 1) * genIn.windowStepSize
    ELSE genIn.samplesStart

\* C26: column k is computed from the windowSize consecutive sample indices from
\* firstStart + k * windowStepSize on, every index outside [samplesStart,
\* samplesStart + samplesLength) giving 0 instead of a sample; a call that
\* returns has computed the columns 0..windowCount-1.
C26_WindowsZeroPadded ==
    /\ genLoop.windowIdx > 0 =>
          genLoop.windowSamples =
              [j \in 0..(genIn.windowSize - 1) |->
                  LET idx == FirstStart + LastColumn * genIn.windowStepSize + j
                  IN  IF idx >= genIn.samplesStart
                           /\ idx < genIn.samplesStart + genIn.samplesLength
                      THEN sample(idx)
                      ELSE 0]
    /\ (genLoop.pc = "done" /\ genOut.status = "returned" /\ genIn.scaleSize > 0) =>
          LastColumn = genOut.windowCount - 1

\* the last of several windows of a call with both flags: it begins inside the
\* range and ends beyond it
C26_Witness ==
    /\ genLoop.pc = "done"
    /\ genOut.status = "returned"
    /\ genIn.isStart /\ genIn.isEnd
    /\ genIn.samplesStart = 1
    /\ genIn.windowSize = 4
    /\ genIn.windowStepSize = 2
    /\ genOut.windowCount >= 3
    /\ genLoop.windowSamples[0] # 0
    /\ genLoop.windowSamples[3] = 0

\* C27: an updateParameters call after the first recomputes the gradient
\* texture only if the gradient differs from the snapshot's, and the scale
\* texture and the scale range only if one of scale, minFrequencyHz,
\* maxFrequencyHz, sampleRate, windowSize differs; a call that changes at most
\* contrast, sensitivity and zoom recomputes none of them and leaves the target
\* and the interpolated scale range as they were.
C27_RecomputeOnlyOnChange ==
    [][(paramOp'.op = "updateParameters" /\ ~paramOp'.first) =>
          /\ "updateGradientTexture" \in paramOp'.calls => "gradient" \in paramOp'.changed
          /\ paramOp'.calls \cap {"updateScaleTexture", "updateScaleRange"} # {} =>
                paramOp'.changed \cap {"scale", "minFrequencyHz", "maxFrequencyHz",
                                       "sampleRate", "windowSize"} # {}
          /\ paramOp'.changed \subseteq {"contrast", "sensitivity", "zoom"} =>
                /\ paramOp'.calls = {}
                /\ scaleRange' = scaleRange
                /\ currentScaleRange' = currentScaleRange]_vars

\* a call changed the contrast alone while the interpolated scale range was on
\* its way to a new target
C27_Witness ==
    /\ paramOp.op = "updateParameters"
    /\ ~paramOp.first
    /\ paramOp.changed = {"contrast"}
    /\ paramOp.calls = {}
    /\ currentScaleRange # scaleRange
    /\ parameters.gradient.v = "AUDACITY_GRADIENT"

\* C28: after every render() call the smoothed contrast handed to the shader is
\* exactly 0 or at least 0.05, whatever the target and the contrast before.
C28_ContrastZeroOrAboveFloor ==
    paramOp.op = "render" =>
        \/ currentContrast = FxInt(0)
        \/ currentContrast[1] >= 1
        \/ currentContrast[1] = 0 /\ currentContrast[2] > ContrastFloorUnits

\* the contrast was smoothed down towards a target between 0 and 0.05 and
\* render() set it to 0
C28_Witness ==
    /\ paramOp.op = "render"
    /\ parameters.contrast.v = <<0, FracOne \div 32>>
    /\ currentContrast = FxInt(0)
    /\ "contrast" \notin paramOp.rest

\* C29: fastResizeCanvas(w, h) sets the zoom override to lastRealWidth / w,
\* lastRealWidth being the width given to the most recent resizeCanvas, and
\* leaves lastSpectrogramStart, lastSpectrogramLength and lastRealWidth as they
\* were, so that it does not turn the next updateSpectrogram into a full upload;
\* render() passes the smoothed zoom multiplied by the override as uZoom.
C29_FastResizeCorrectsZoom ==
    [][/\ (lastOp' # lastOp /\ lastOp'.op = "fastResizeCanvas") =>
             /\ resizeHandlerZoomOverride'[1] * lastOp'.arg
                   = resizeHandlerZoomOverride'[2] * resizeHandlerLastRealWidth
             /\ resizeHandlerZoomOverride'[2] > 0
             /\ UNCHANGED <<lastSpectrogramStart, lastSpectrogramLength,
                            resizeHandlerLastRealWidth>>
       /\ (lastOp' # lastOp /\ lastOp'.op = "updateSpectrogram"
             /\ lastOp.op = "fastResizeCanvas" /\ ~invalidated) =>
             lastOp'.uploaded = SumHeights(partialUploads)
       /\ (paramOp' # paramOp /\ paramOp'.op = "render") =>
             FxTimes(resizeHandlerZoomOverride[2], paramOp'.zoomUniform[1])
               = FxTimes(paramOp'.zoomUniform[2] * resizeHandlerZoomOverride[1],
                         currentZoom')]_vars

\* during a resize to a narrower window a frame uploaded only the new columns
\* and rendered with a zoom above the smoothed one
C29_Witness ==
    /\ paramOp.op = "render"
    /\ lastOp.op = "updateSpectrogram"
    /\ lastOp.was # null
    /\ lastOp.uploaded > 0
    /\ lastOp.uploaded < width
    /\ "fastResizeCanvas" \in seen
    /\ resizeHandlerZoomOverride = <<3, 2>>
    /\ resizeHandlerLastRealWidth = 3
    /\ paramOp.zoomUniform = <<FxTimes(3, currentZoom), 2>>

\* C30: for every request it receives the helper worker posts exactly one
\* response: a payload when the action is the spectrogram computation and it
\* returns, an error when it throws, an error when the action is not recognised.
C30_OneResponsePerRequest ==
    poolOp.op = "worker" =>
        /\ Len(poolOp.posts) = 1
        /\ poolOp.posts[1] =
              IF poolOp.action = "spectrogram-compute" /\ poolOp.outcome = "payload"
              THEN "payload"
              ELSE "error"

\* a request with an unknown action answered by an error while the other worker
\* had answered a computation by its payload
C30_Witness ==
    /\ poolOp.op = "worker"
    /\ poolOp.action = "unknown"
    /\ poolOp.posts = <<"error">>
    /\ response[poolOp.worker] = "error"
    /\ \E w \in Workers : response[w] = "payload"
    /\ Len(posted) >= 3

\* the tasks that hold worker w: given the worker and not yet settled
InFlightOn(w) ==
    {t \in Tasks : promise[t] \in {"granted", "posted"} /\ taskWorker[t] = w}

\* the task whose request was posted to worker w last, 0 when there was none
LastPostedOn(w) ==
    LET on == {i \in 1..Len(posted) : taskWorker[posted[i]] = w}
    IN  IF on = {} THEN 0
        ELSE posted[CHOOSE i \in on : \A j \in on : j <= i]

\* every worker holds at most one task; its listener, the request it works on
\* and the response it posted all belong to that task
OneTaskPerWorker ==
    /\ \A w \in Workers :
          /\ Cardinality(InFlightOn(w)) <= 1
          /\ listener[w] # 0 =>
                (InFlightOn(w) = {listener[w]} /\ promise[listener[w]] = "posted")
          /\ request[w] # 0 => (listener[w] = request[w] /\ response[w] = "none")
          /\ response[w] # "none" => listener[w] = LastPostedOn(w)
    /\ Cardinality({t \in Tasks : promise[t] \in {"granted", "posted"}}) <= PoolSize

\* a then-callback adds its listener to a worker nobody listens on and posts to
\* a worker with no request or response under way
DispatchOnIdleWorker ==
    poolOp'.op = "then" =>
        /\ listener[poolOp'.worker] = 0
        /\ request[poolOp'.worker] = 0
        /\ response[poolOp'.worker] = "none"

\* a response settles the task posted last to its worker and no other; the only
\* other promise that moves is the waiting request the worker is handed to
SettlesDispatchedTask ==
    poolOp'.op = "messageHandler" =>
        LET w == poolOp'.worker
            t == poolOp'.task
        IN  /\ t = LastPostedOn(w)
            /\ t = listener[w]
            /\ promise[t] = "posted"
            /\ promise'[t] \in {"resolved", "rejected"}
            /\ \A u \in Tasks \ {t} :
                  promise'[u] # promise[u] =>
                      /\ u = poolOp'.next
                      /\ promise[u] = "waiting"
                      /\ promise'[u] = "granted"
                      /\ taskWorker'[u] = w

\* C31: every worker has at most one dispatched and unanswered task and at most
\* one registered response listener, the tasks in flight never outnumber the
\* pool, and every response settles exactly the task that was dispatched on its
\* worker, also when releaseWorker hands the worker to a queued request.
C31_OneTaskPerWorker ==
    /\ []OneTaskPerWorker
    /\ [][DispatchOnIdleWorker]_vars
    /\ [][SettlesDispatchedTask]_vars

\* a worker handed directly to a queued request has answered that request too,
\* while the other worker is still busy with an earlier task
C31_Witness ==
    /\ poolOp.op = "messageHandler"
    /\ poolOp.task > PoolSize
    /\ Settled(poolOp.task)
    /\ poolOp.next # 0
    /\ promise[poolOp.next] = "granted"
    /\ taskWorker[poolOp.next] = poolOp.worker
    /\ \E v \in Tasks : v < poolOp.task /\ promise[v] = "posted"

\* C32: while a request waits in WORKER_QUEUE every worker is busy, and a
\* worker's busy flag is set exactly while a task has been given the worker and
\* its response has not been handled yet.
C32_BusyIffAssigned ==
    /\ Len(WORKER_QUEUE) > 0 => \A w \in Workers : WORKER_POOL[w]
    /\ \A w \in Workers : WORKER_POOL[w] <=> InFlightOn(w) # {}
    /\ \A i \in 1..Len(WORKER_QUEUE) : promise[WORKER_QUEUE[i]] = "waiting"

\* a released worker went straight to the first waiting request while another
\* request still waits: the worker stayed busy, now for that request
C32_Witness ==
    /\ poolOp.op = "messageHandler"
    /\ poolOp.next # 0
    /\ Len(WORKER_QUEUE) > 0
    /\ WORKER_POOL[poolOp.worker]
    /\ InFlightOn(poolOp.worker) = {poolOp.next}
    /\ Settled(poolOp.task)

MaxSettle == 36

\* the smoothing has come to rest: the last render() changed nothing
AtRest == paramOp.op = "render" /\ paramOp.moved = {}

\* where the parameters rest: at their target, but the contrast at 0 for a
\* target under 0.05, and possibly at 0 for a target under 0.1
RestsAtTargetOrFloor ==
    AtRest =>
        /\ \A c \in Smoothed \ {"contrast"} : Current(c) = Target(c)
        /\ \/ currentContrast = Target("contrast")
           \/ /\ currentContrast = FxInt(0)
              /\ Target("contrast")[1] = 0
              /\ Target("contrast")[2] <= 2 * ContrastFloorUnits + 1
        /\ (Target("contrast")[1] = 0 /\ Target("contrast")[2] <= ContrastFloorUnits)
              => currentContrast = FxInt(0)

\* a render() after one that changed nothing changes nothing
RestIsPermanent ==
    (AtRest /\ paramOp'.op = "render") => paramOp'.moved = {}

C34_NoStaleColumnAfterClear ==
    \A i \in 1..Len(enqueued) : enqueued[i] \notin inFlightAtClear

\* C35: a rejected submission does not stop the microphone stream: once every
\* request submitted so far has settled, bufferCallbackPromise is null again, so
\* that the next audio event submits (processChannelBuffers returns at once
\* while it is not null).
C35_StreamSurvivesRejection ==
    (source = "microphone" /\ \A t \in Tasks : ~InFlight(t)) =>
        bufferCallbackPromise = "null"

\* the chunk that ends the k-th window of the last submission
LastChunkOfWindow(k) ==
    micOp.buffer[(micOp.startIdx + (k - 1) * SPECTROGRAM_WINDOW_OVERLAP
                    + SPECTROGRAM_WINDOW_SIZE) \div SPECTROGRAM_WINDOW_OVERLAP]

\* C36: with no failures, the columns requested for a channel up to and
\* including a submission are as many as the chunks received before it: 4 for
\* the first submission (4 chunks, isStart), one per chunk received since the
\* previous submission for every later one, the k-th column requested overall
\* being the window that ends with the k-th chunk received.
C36_OneColumnPerChunk ==
    /\ columnsRequested <= chunksReceived
    /\ micOp.op = "submit" =>
          /\ columnsRequested = chunksReceived
          /\ micOp.channels = 0..(Channels - 1)
          /\ micOp.isStart <=> micOp.before = 0
          /\ micOp.isStart => (micOp.columns = 4 /\ Len(micOp.buffer) = 4)
          /\ \A k \in 1..micOp.columns : LastChunkOfWindow(k) = micOp.before + k

\* a third submission that asks for three columns: three chunks had arrived
\* while the second one was pending
C36_Witness ==
    /\ micOp.op = "submit"
    /\ ~micOp.isStart
    /\ micOp.columns = 3
    /\ micOp.before > 4
    /\ Len(micOp.buffer) = 6
    /\ Len(channelBuffers[0]) = 3

\* C37: the submissions of the file driver are contiguous: every one has a
\* samplesLength that is a positive multiple of 4096, its first window starts
\* 1024 samples after the last window of the submission before it, so that the
\* window starts of the whole playback step by 1024 without gap or repeat, and
\* only the first one (nextSample = 0) sets isStart.
C37_FileWindowsContiguous ==
    fileOp.op = "submit" =>
        /\ fileOp.length > 0
        /\ fileOp.length % 4096 = 0
        /\ fileOp.windows >= 1
        /\ fileOp.isStart <=> fileOp.previous = null
        /\ fileOp.isStart => fileOp.firstWindow = 0 - 3 * 1024
        /\ fileOp.previous # null => fileOp.firstWindow = fileOp.previous + 1024
        /\ lastWindowStart = fileOp.firstWindow + (fileOp.windows - 1) * 1024
        /\ nextSample = lastWindowStart + 1024

\* a later submission of two windows' worth of new samples following one of
\* several windows
C37_Witness ==
    /\ fileOp.op = "submit"
    /\ ~fileOp.isStart
    /\ fileOp.length = 2 * 4096
    /\ fileOp.windows = 5
    /\ fileOp.previous # null
    /\ fileOp.previous > 1024
    /\ fileOp.firstWindow = fileOp.previous + 1024

\* C38: no submission of the file driver reaches past the end of the channel
\* array: samplesStart + samplesLength is at most the number of samples, so
\* every index that passes the analyzer's range test is an index of the array.
C38_SubmissionWithinAudio ==
    fileOp.op = "submit" => fileOp.start + fileOp.length <= AudioLength

====
